---- MODULE Spec2Model ----
(***************************************************************************)
(* Rhythm DNA v4: the three-phase analysis orchestrator (renderer worker   *)
(* pool, analyzeMp3, the background queue of ffcalc.js) and the JSON       *)
(* library store (jsondb.js).                                               *)
(*                                                                         *)
(* Paths are sequences of one-character strings, so that the path          *)
(* functions (basename, extname, toLowerCase, ...) are computed and not    *)
(* assumed.                                                                *)
(***************************************************************************)
EXTENDS Integers, Sequences, FiniteSets, TLC

(***************************************************************************)
(* Bounds                                                                  *)
(***************************************************************************)
\* number of ordinary tracks /m/t<i>.mp3 dropped besides the s.mp3 / s.wav pair
NumPlain == 2

(***************************************************************************)
(* Program constants                                                       *)
(***************************************************************************)
MAX_BACKGROUND_CONCURRENCY == 4
creativeConcurrency == 2
DefaultTechConcurrency == 4

(***************************************************************************)
(* String helpers (String.prototype / node:path, posix flavour)            *)
(***************************************************************************)
Min(a, b) == IF a < b THEN a ELSE b

toLowerChar(c) ==
  CASE c = "S" -> "s" [] c = "M" -> "m" [] c = "P" -> "p" [] c = "T" -> "t"
    [] c = "W" -> "w" [] c = "A" -> "a" [] c = "V" -> "v" [] c = "X" -> "x"
    [] c = "N" -> "n"
    [] OTHER -> c

toLowerCase(p) == [i \in 1..Len(p) |-> toLowerChar(p[i])]

\* p.replace(/\\/g, '/')
replaceBackslashes(p) == [i \in 1..Len(p) |-> IF p[i] = "\\" THEN "/" ELSE p[i]]

\* index of the last occurrence of c in p, 0 when there is none
lastIndexOf(p, c) ==
  LET I == {i \in 1..Len(p) : p[i] = c}
  IN  IF I = {} THEN 0 ELSE CHOOSE i \in I : \A j \in I : j <= i

basename(p) == SubSeq(p, lastIndexOf(p, "/") + 1, Len(p))

dirname(p) ==
  LET k == lastIndexOf(p, "/")
  IN  IF k = 0 THEN <<".">> ELSE IF k = 1 THEN <<"/">> ELSE SubSeq(p, 1, k - 1)

\* path.extname: from the last dot of the basename, none for a leading dot
extname(p) ==
  LET b == basename(p)
      k == lastIndexOf(b, ".")
  IN  IF k <= 1 THEN <<>> ELSE SubSeq(b, k, Len(b))

\* path.basename(p, path.extname(p))
stemOf(p) ==
  LET b == basename(p)
  IN  SubSeq(b, 1, Len(b) - Len(extname(p)))

\* path.join(dir, `${baseName}.json`)
jsonPathOf(p) == dirname(p) \o <<"/">> \o stemOf(p) \o <<".", "j", "s", "o", "n">>

(***************************************************************************)
(* The drops and the analysis queue                                        *)
(***************************************************************************)
Digit(i) == <<"0", "1", "2", "3", "4", "5", "6", "7", "8", "9">>[i + 1]

PathSMp3  == <<"/", "m", "/", "s", ".", "m", "p", "3">>
PathSWav  == <<"/", "m", "/", "s", ".", "w", "a", "v">>
PathSOtherDir == <<"/", "n", "/", "S", ".", "m", "p", "3">>
PathSUpper == <<"\\", "M", "\\", "S", ".", "M", "P", "3">>
PathText  == <<"/", "m", "/", "x", ".", "t", "x", "t">>
PathPlain(i) == <<"/", "m", "/", "t", Digit(i), ".", "m", "p", "3">>

\* first drop: s.mp3, a same-named file of another folder, the plain tracks
Drop1 == <<PathSMp3, PathSOtherDir>> \o [i \in 1..NumPlain |-> PathPlain(i)]
\* second drop: s.mp3 again in another spelling, a text file, and s.wav
Drop2 == <<PathSUpper, PathText, PathSWav>>

AudioExts == {<<".", "m", "p", "3">>, <<".", "w", "a", "v">>,
              <<".", "a", "i", "f">>, <<".", "a", "i", "f", "f">>}

RECURSIVE scanFrom(_, _, _)
scanFrom(paths, i, seen) ==
  IF i > Len(paths) THEN <<>>
  ELSE LET f   == paths[i]
           ext == toLowerCase(extname(f))
           bn  == toLowerCase(stemOf(f))
       IN  IF ext \in AudioExts /\ bn \notin seen
           THEN <<[path |-> f, hasExistingAnalysis |-> FALSE]>>
                  \o scanFrom(paths, i + 1, seen \cup {bn})
           ELSE scanFrom(paths, i + 1, seen)

\* ipcMain.handle('scanDropped'): audio files only, one per lower-cased stem
scanDropped(paths) == scanFrom(paths, 1, {})

normPath(p) == toLowerCase(replaceBackslashes(p))

RECURSIVE mergeDropped(_, _, _)
mergeDropped(queue, incoming, i) ==
  IF i > Len(incoming) THEN queue
  ELSE LET t == incoming[i]
           dup == \E k \in 1..Len(queue) : normPath(queue[k].path) = normPath(t.path)
       IN  mergeDropped(IF dup THEN queue ELSE Append(queue, t), incoming, i + 1)

\* the 'filesDropped' listener: additive merge keyed by normPath
filesDropped(queue, incoming) == mergeDropped(queue, incoming, 1)

currentQueue == filesDropped(filesDropped(<<>>, scanDropped(Drop1)), scanDropped(Drop2))

allowReanalyze == FALSE

\* processQueue's two filters
tracksToProcess ==
  SelectSeq(currentQueue,
            LAMBDA t : toLowerCase(extname(t.path)) \in AudioExts
                       /\ ~(t.hasExistingAnalysis /\ ~allowReanalyze))

Subs == 1..Len(tracksToProcess)
\* the per-file JSON path of each submission
jsonPath == [s \in Subs |-> jsonPathOf(tracksToProcess[s].path)]
JsonOf(s) == jsonPath[s]
JsonPaths == {JsonOf(s) : s \in Subs}

(***************************************************************************)
(* State of the analysis pipeline                                          *)
(***************************************************************************)
VARIABLES
  mode,                  \* INSTRUMENTATION_MODE (environment, fixed per run)
  dbFolder,              \* settings.dbFolder is set
  techConcurrency,       \* settings.techConcurrency, 0 when unset
  started,               \* Start Analysis was clicked
  trackIndex,            \* processQueue: tracks handed to a worker so far
  activeWorkers,         \* processQueue: workers awaiting analyzeFile
  tech,                  \* per submission: position in analyzeFile/analyzeMp3
  bg,                    \* per submission: position in completeAnalysisInBackground
  creativeSt,            \* per submission: runCreativeAnalysis idle/running/done
  instrSt,               \* per submission: runInstrumentationAnalysis idle/running/done
  creativeRes,           \* per submission: outcome of runCreativeAnalysis
  instrRes,              \* per submission: outcome of runInstrumentationAnalysis
  backgroundQueue,       \* queued background tasks (submissions), FIFO
  activeBackgroundTasks, \* started and unsettled background tasks
  obs,                   \* per submission: what its submitter was sent, in order
  jsonWrites,            \* per submission: fsp.writeFile calls on its per-file JSON
  storeWrites,           \* per submission: saveMain calls
  jsonFile               \* per JSON path: absent / partial / complete

(***************************************************************************)
(* State of the JSON store (jsondb.js): the files of the db folder and the  *)
(* calls into upsertTrack / rebuildCriteria that are under way              *)
(***************************************************************************)
VARIABLES
  autoUpdateDb,          \* settings.autoUpdateDb
  mainFile,              \* RhythmDB.json
  tmpFile,               \* RhythmDB.json.tmp, shared by every saveMain
  criteriaFile,          \* CriteriaDB.json
  callPc,                \* per call: position in upsertTrack / rebuildCriteria
  callSub,               \* per call: the submission whose analysis it carries
  callDb,                \* per call: keys of the `db` object it holds
  committed              \* keys that a returned upsertTrack put into RhythmDB.json

pipelineVars == <<started, trackIndex, activeWorkers, tech, bg, creativeSt,
                  instrSt, creativeRes, instrRes, backgroundQueue,
                  activeBackgroundTasks, obs, jsonWrites, storeWrites, jsonFile>>

storeVars == <<autoUpdateDb, mainFile, tmpFile, criteriaFile, callPc, callSub,
               callDb, committed>>

(***************************************************************************)
(* State of the analyzeFile handler of main.js before the renderer has      *)
(* signalled that it is ready                                               *)
(***************************************************************************)
VARIABLES
  rendererReady,         \* main.js: rendererReady
  pendingAnalysis,       \* main.js: submissions held back, in arrival order
  readySignalled,        \* the once-listener of renderer:ready has fired
  watchdogFired,         \* the 5 s timer of createWindow has fired
  drainPos,              \* position of the listener's loop in pendingAnalysis, 0 outside it
  phase,                 \* per submission: position in the analyzeFile handler
  arrivals,              \* history: submissions held back, in arrival order
  techLog                \* history: held-back submissions, in the order analyzeMp3 was called

readyVars == <<rendererReady, pendingAnalysis, readySignalled, watchdogFired,
               drainPos, phase, arrivals, techLog>>

(***************************************************************************)
(* State of the renderer's Clear Queue button                              *)
(***************************************************************************)
VARIABLES
  queueCleared,          \* Clear Queue was clicked while the analysis ran
  writesAtClear          \* history: jsonWrites and storeWrites at that click

cancelVars == <<queueCleared, writesAtClear>>

(***************************************************************************)
(* State of the main store when upsertTrack and rebuildCriteria run one     *)
(* after the other: the records themselves                                  *)
(***************************************************************************)
VARIABLES
  tracksDb,              \* db.tracks of RhythmDB.json: key -> record
  criteriaDb,            \* CriteriaDB.json: whether built, and its instrument facet
  now,                   \* the clock read by new Date()
  upsertLog              \* history: per upsert, its input, key, time and created_at

mergeVars == <<tracksDb, criteriaDb, now, upsertLog>>

envVars == <<mode, dbFolder, techConcurrency>>

\* finalize_instruments.js: the three input lists of one finalization, the
\* list it returned, and the list a second finalization of that list returned
VARIABLES
  finalization

finalizeVars == <<finalization>>

\* ffcalc.js: the tempo of one analysis, from the estimators and the TBPM
\* frame to the tempo fields of the final record
VARIABLES
  tempoRun

tempoVars == <<tempoRun>>

\* ensemble_runner.js: one call of analyzeWithEnsemble, from the checks before
\* the classifier is started to the value runInstrumentationAnalysis returns
VARIABLES
  ensembleRun

ensembleVars == <<ensembleRun>>

\* ffcalc.js: one creative analysis, from the LLM's answer to the creative
\* object of the record
VARIABLES
  creativeRun

creativeVars == <<creativeRun>>

\* db/mergeFromTrackJson.js: one per-track JSON and what the merge makes of it
VARIABLES
  trackJson

jsonVars == <<trackJson>>

\* ffcalc.js: history of the background queue
VARIABLES
  everQueued             \* history: tasks that enqueueBackgroundTask left waiting

queueVars == <<everQueued>>

vars == <<envVars, pipelineVars, storeVars, readyVars, cancelVars, mergeVars,
          finalizeVars,
          tempoVars,
          ensembleVars,
          creativeVars,
          jsonVars,
          queueVars>>

NumCalls == 3
Calls == 1..NumCalls

\* a file of the db folder: absent, partial (open for writing, truncated or
\* garbled: JSON.parse throws) or ok with the keys of its `tracks` object;
\* writers are the calls inside fsp.writeFile on it, mixed tells that two of
\* them overlapped
NoFile == [st |-> "absent", tracks |-> {}, writers |-> {}, mixed |-> FALSE]

InitPipeline ==
  /\ started = FALSE
  /\ trackIndex = 0
  /\ activeWorkers = 0
  /\ tech = [s \in Subs |-> "queued"]
  /\ bg = [s \in Subs |-> "none"]
  /\ creativeSt = [s \in Subs |-> "idle"]
  /\ instrSt = [s \in Subs |-> "idle"]
  /\ creativeRes = [s \in Subs |-> "none"]
  /\ instrRes = [s \in Subs |-> "none"]
  /\ backgroundQueue = <<>>
  /\ activeBackgroundTasks = 0
  /\ obs = [s \in Subs |-> <<>>]
  /\ jsonWrites = [s \in Subs |-> 0]
  /\ storeWrites = [s \in Subs |-> 0]
  /\ jsonFile = [p \in JsonPaths |-> "absent"]

InitStore ==
  /\ mainFile = NoFile
  /\ tmpFile = NoFile
  /\ criteriaFile = NoFile
  /\ callPc = [c \in Calls |-> "idle"]
  /\ callSub = [c \in Calls |-> 1]
  /\ callDb = [c \in Calls |-> {}]
  /\ committed = {}

InitCancel ==
  /\ queueCleared = FALSE
  /\ writesAtClear = [json |-> [s \in Subs |-> 0], store |-> [s \in Subs |-> 0]]

FirstInstant == 10

InitMerge ==
  /\ tracksDb = <<>>
  /\ criteriaDb = [built |-> FALSE, tracks |-> <<>>, instrument |-> {}]
  /\ now = FirstInstant
  /\ upsertLog = <<>>

NoList == <<>>

InitFinalize ==
  finalization = [pc |-> "idle", x |-> NoList, y |-> NoList, z |-> NoList,
                  once |-> NoList, twice |-> NoList,
                  loads |-> TRUE, finalInstruments |-> NoList]

InitTempo ==
  tempoRun = [pc |-> "idle", finalBpm |-> [kind |-> "null", tenths |-> 0],
              tempoSource |-> "thirds", TBPM |-> "absent",
              id3Bpm |-> [kind |-> "null", tenths |-> 0],
              bpm |-> [kind |-> "null", tenths |-> 0], tempo_source |-> "thirds"]

InitEnsemble ==
  ensembleRun = [pc |-> "idle", condition |-> "ok", output |-> "none",
                 settled |-> "pending", instruments |-> <<>>, picks |-> <<>>,
                 returned |-> <<>>]

InitCreative ==
  creativeRun = [pc |-> "idle", answer |-> <<>>, error |-> FALSE,
                 vocals |-> <<>>, recordVocals |-> <<>>,
                 creative_status |-> ""]

InitJson ==
  trackJson = [pc |-> "idle",
               finalInstruments |-> <<>>, analysisFinalInstruments |-> <<>>,
               instruments |-> <<>>, analysisInstruments |-> <<>>,
               instrumentationInstruments |-> <<>>, creativeInstrument |-> <<>>,
               techMap |-> <<>>, suggestedInstruments |-> <<>>,
               pannsMean |-> 0, pannsPos |-> 0,
               final_instruments |-> <<>>, merged_instruments |-> <<>>]

InitQueue ==
  everQueued = {}

\* the handler state once the renderer is ready and nothing is held back
InitReadyDone ==
  /\ rendererReady = TRUE
  /\ pendingAnalysis = <<>>
  /\ readySignalled = TRUE
  /\ watchdogFired = FALSE
  /\ drainPos = 0
  /\ phase = [s \in Subs |-> "none"]
  /\ arrivals = <<>>
  /\ techLog = <<>>

Init ==
  /\ mode \in {"CONCURRENT", "SEQUENTIAL"}
  /\ dbFolder \in BOOLEAN
  /\ techConcurrency \in {0, 2}
  /\ autoUpdateDb = FALSE
  /\ InitPipeline
  /\ InitStore
  /\ InitReadyDone
  /\ InitCancel
  /\ InitMerge
  /\ InitFinalize
  /\ InitTempo
  /\ InitEnsemble
  /\ InitCreative
  /\ InitJson
  /\ InitQueue

(***************************************************************************)
(* The background queue (ffcalc.js)                                        *)
(***************************************************************************)
\* processNextBackgroundTask on queue q with a tasks active: the task it
\* starts (0 for none), the queue and the counter it leaves
processNextBackgroundTask(q, a) ==
  IF a >= MAX_BACKGROUND_CONCURRENCY \/ Len(q) = 0
  THEN [start |-> 0, queue |-> q, active |-> a]
  ELSE [start |-> Head(q), queue |-> Tail(q), active |-> a + 1]

\* task() runs completeAnalysisInBackground up to its first await, which is
\* the one on runCreativeAnalysis, in both modes
Dispatch(q, a, bgBase) ==
  LET r == processNextBackgroundTask(q, a)
  IN  /\ backgroundQueue' = r.queue
      /\ activeBackgroundTasks' = r.active
      /\ bg' = IF r.start = 0 THEN bgBase ELSE [bgBase EXCEPT ![r.start] = "creative"]
      /\ creativeSt' = IF r.start = 0 THEN creativeSt
                       ELSE [creativeSt EXCEPT ![r.start] = "running"]

\* enqueueBackgroundTask(taskFn)
enqueueBackgroundTask(s) ==
  Dispatch(Append(backgroundQueue, s), activeBackgroundTasks, [bg EXCEPT ![s] = "queued"])

\* mutant: a rejected task skips the .finally and keeps its slot
SettleTask_noFinally(s, how) ==
  IF how = "failed"
  THEN /\ bg' = [bg EXCEPT ![s] = how]
       /\ UNCHANGED <<backgroundQueue, activeBackgroundTasks, creativeSt>>
  ELSE Dispatch(backgroundQueue, activeBackgroundTasks - 1, [bg EXCEPT ![s] = how])

\* .finally of a settled task: release the slot, start the next task
SettleTask(s, how) ==
  Dispatch(backgroundQueue, activeBackgroundTasks - 1, [bg EXCEPT ![s] = how])

(***************************************************************************)
(* Renderer: processQueue's worker pool; main: analyzeFile / analyzeMp3    *)
(***************************************************************************)
concurrency == IF techConcurrency = 0 THEN DefaultTechConcurrency ELSE techConcurrency

\* Start Analysis: the first min(concurrency, n) tracks go to analyzeFile,
\* where analyzeMp3 starts the technical phase
processQueue ==
  /\ ~started
  /\ Len(tracksToProcess) > 0
  /\ LET initialWorkers == Min(concurrency, Len(tracksToProcess))
     IN  /\ tech' = [s \in Subs |-> IF s <= initialWorkers THEN "running" ELSE "queued"]
         /\ trackIndex' = initialWorkers
         /\ activeWorkers' = initialWorkers
  /\ started' = TRUE
  /\ UNCHANGED <<envVars, queueVars, jsonVars, creativeVars, ensembleVars, tempoVars, storeVars, readyVars, cancelVars, mergeVars, finalizeVars, bg, creativeSt, instrSt, creativeRes, instrRes,
                 backgroundQueue, activeBackgroundTasks, obs, jsonWrites,
                 storeWrites, jsonFile>>

\* processNextTrack after `await window.api.analyzeFile` returned for s with
\* status st: the worker takes the next track, or retires
processNextTrack(s, st) ==
  IF trackIndex < Len(tracksToProcess)
  THEN /\ tech' = [tech EXCEPT ![s] = st, ![trackIndex + 1] = "running"]
       /\ trackIndex' = trackIndex + 1
       /\ activeWorkers' = activeWorkers
  ELSE /\ tech' = [tech EXCEPT ![s] = st]
       /\ trackIndex' = trackIndex
       /\ activeWorkers' = activeWorkers - 1

PartialRecord == [type |-> "partial", phase |-> "TECHNICAL_ONLY",
                  creative |-> "absent", instruments |-> "absent"]
ErrorResult == [type |-> "error", phase |-> "none",
                creative |-> "absent", instruments |-> "absent"]

\* mutant: the background task is enqueued although the probe failed
analyzeMp3Failed_enqueues(s) ==
  /\ tech[s] = "running"
  /\ obs' = [obs EXCEPT ![s] = Append(@, ErrorResult)]
  /\ enqueueBackgroundTask(s)
  /\ processNextTrack(s, "ERROR")
  /\ UNCHANGED <<envVars, queueVars, jsonVars, creativeVars, ensembleVars, tempoVars, storeVars, readyVars, cancelVars, mergeVars, finalizeVars, started, instrSt, creativeRes, instrRes, jsonWrites,
                 storeWrites, jsonFile>>

\* ffprobeJson rejects: analyzeMp3 throws, analyzeFile answers
\* {success: false}, nothing is enqueued
analyzeMp3Failed(s) ==
  /\ tech[s] = "running"
  /\ obs' = [obs EXCEPT ![s] = Append(@, ErrorResult)]
  /\ processNextTrack(s, "ERROR")
  /\ UNCHANGED <<envVars, queueVars, jsonVars, creativeVars, ensembleVars, tempoVars, storeVars, readyVars, cancelVars, mergeVars, finalizeVars, started, bg, creativeSt, instrSt, creativeRes, instrRes,
                 backgroundQueue, activeBackgroundTasks, jsonWrites, storeWrites,
                 jsonFile>>

\* probe, tempo and tags are done (tempo and tag failures are swallowed): the
\* background task is enqueued, then the technical-only partial result is
\* returned to the submitter
analyzeMp3Complete(s) ==
  /\ tech[s] = "running"
  /\ enqueueBackgroundTask(s)
  /\ obs' = [obs EXCEPT ![s] = Append(@, PartialRecord)]
  /\ processNextTrack(s, "COMPLETE")
  /\ UNCHANGED <<envVars, queueVars, jsonVars, creativeVars, ensembleVars, tempoVars, storeVars, readyVars, cancelVars, mergeVars, finalizeVars, started, instrSt, creativeRes, instrRes, jsonWrites,
                 storeWrites, jsonFile>>

(***************************************************************************)
(* Main: completeAnalysisInBackground                                      *)
(***************************************************************************)
\* What the external collaborators do is an input of the run.  The LLM server
\* is, for the submissions in turn: up with the model and a usable answer;
\* unreachable; up without the model; up with an answer that does not parse;
\* up for the model listing but gone for the chat request.  The classifier
\* alternately works and fails.
LlmConditions ==
  << [tags |-> "ok", listed |-> TRUE, post |-> "ok"],
     [tags |-> "unreachable", listed |-> FALSE, post |-> "unreachable"],
     [tags |-> "ok", listed |-> FALSE, post |-> "ok"],
     [tags |-> "ok", listed |-> TRUE, post |-> "unparseable"],
     [tags |-> "ok", listed |-> TRUE, post |-> "unreachable"] >>
LlmConditionOf(s) == LlmConditions[((s - 1) % 5) + 1]

\* checkOllamaModel(model): GET /api/tags; a connection error and a listing
\* that does not parse both resolve false
checkOllamaModel(c) == c.tags = "ok" /\ c.listed

\* runCreativeAnalysis: the flags of the object it resolves with
runCreativeAnalysis(c) ==
  IF ~checkOllamaModel(c)
  THEN [error |-> TRUE, offline |-> FALSE, modelMissing |-> TRUE]
  ELSE IF c.post = "unreachable"
  THEN [error |-> TRUE, offline |-> TRUE, modelMissing |-> FALSE]
  ELSE IF c.post = "unparseable"
  THEN [error |-> TRUE, offline |-> FALSE, modelMissing |-> FALSE]
  ELSE [error |-> FALSE, offline |-> FALSE, modelMissing |-> FALSE]

\* creativeStatus, the creative_status of the record and the note of the
\* creative jobProgress event
creativeStatus(r) ==
  IF r.modelMissing THEN "Model 'qwen3:8b' not installed - run: ollama pull qwen3:8b"
  ELSE IF r.offline THEN "Ollama offline - creative analysis skipped"
  ELSE IF r.error THEN "Creative analysis error - using defaults"
  ELSE "Creative analysis complete"

\* status of the creative jobProgress event
creativeStageStatus(r) == IF r.error THEN "ERROR" ELSE "COMPLETE"

\* the outcome kept in creativeRes: which of the flags decides creativeStatus
CreativeOutcomes(r) ==
  IF r.modelMissing THEN "modelMissing"
  ELSE IF r.offline THEN "offline"
  ELSE IF r.error THEN "error"
  ELSE "ok"
InstrOutcomes == <<"ok", "error">>
CreativeOutcomeOf(s) == CreativeOutcomes(runCreativeAnalysis(LlmConditionOf(s)))
InstrOutcomeOf(s) == InstrOutcomes[(((s - 1) + ((s - 1) \div 4)) % 2) + 1]

\* other tasks inside fsp.writeFile on the JSON path of s
OtherWriters(s) ==
  {t \in Subs \ {s} : bg[t] \in {"write1", "write2"} /\ JsonOf(t) = JsonOf(s)}

\* fsp.writeFile(jsonPath, ...) begins: the file is opened with truncation
BeginJsonWrite(s) ==
  /\ jsonWrites' = [jsonWrites EXCEPT ![s] = @ + 1]
  /\ jsonFile' = [jsonFile EXCEPT ![JsonOf(s)] = "partial"]

\* fsp.writeFile settles
EndJsonWrite(s, ok) ==
  jsonFile' = [jsonFile EXCEPT ![JsonOf(s)] =
                 IF ok /\ OtherWriters(s) = {} THEN "complete" ELSE "partial"]

\* mutant: the record is written as soon as Creative is back, with
\* Instrumentation started but not awaited
creativeDone_notAwaitingInstr(s) ==
  /\ bg[s] = "creative"
  /\ creativeRes' = [creativeRes EXCEPT ![s] = CreativeOutcomeOf(s)]
  /\ creativeSt' = [creativeSt EXCEPT ![s] = "done"]
  /\ instrSt' = [instrSt EXCEPT ![s] = "running"]
  /\ bg' = [bg EXCEPT ![s] = "write1"]
  /\ BeginJsonWrite(s)
  /\ UNCHANGED <<envVars, queueVars, jsonVars, creativeVars, ensembleVars, tempoVars, storeVars, readyVars, cancelVars, mergeVars, finalizeVars, started, trackIndex, activeWorkers, tech, instrRes,
                 backgroundQueue, activeBackgroundTasks, obs, storeWrites>>

\* runCreativeAnalysis resolved; runInstrumentationAnalysis is called next,
\* whatever the mode
creativeDone(s) ==
  /\ bg[s] = "creative"
  /\ creativeRes' = [creativeRes EXCEPT ![s] = CreativeOutcomeOf(s)]
  /\ creativeSt' = [creativeSt EXCEPT ![s] = "done"]
  /\ IF mode = "SEQUENTIAL"
     THEN /\ bg' = [bg EXCEPT ![s] = "instr"]
          /\ instrSt' = [instrSt EXCEPT ![s] = "running"]
     ELSE /\ bg' = [bg EXCEPT ![s] = "instr"]
          /\ instrSt' = [instrSt EXCEPT ![s] = "running"]
  /\ UNCHANGED <<envVars, queueVars, jsonVars, creativeVars, ensembleVars, tempoVars, storeVars, readyVars, cancelVars, mergeVars, finalizeVars, started, trackIndex, activeWorkers, tech, instrRes,
                 backgroundQueue, activeBackgroundTasks, obs, jsonWrites,
                 storeWrites, jsonFile>>

\* runInstrumentationAnalysis resolved (it catches its own errors); the record
\* is assembled and the first write of the per-file JSON begins
instrumentationDone(s) ==
  /\ bg[s] = "instr"
  /\ instrRes' = [instrRes EXCEPT ![s] = InstrOutcomeOf(s)]
  /\ instrSt' = [instrSt EXCEPT ![s] = "done"]
  /\ bg' = [bg EXCEPT ![s] = "write1"]
  /\ BeginJsonWrite(s)
  /\ UNCHANGED <<envVars, queueVars, jsonVars, creativeVars, ensembleVars, tempoVars, storeVars, readyVars, cancelVars, mergeVars, finalizeVars, started, trackIndex, activeWorkers, tech, creativeSt,
                 creativeRes, backgroundQueue, activeBackgroundTasks, obs, storeWrites>>

\* mutant: track:complete carries the technical-only record again
FinalRecord_technicalOnly(s) == PartialRecord

\* the `analysis` object sent with track:complete
FinalRecord(s) ==
  [type |-> "final", phase |-> "MERGED",
   creative |-> IF creativeRes[s] = "ok" THEN "llm" ELSE "default",
   instruments |-> IF instrRes[s] = "ok" THEN "ensemble" ELSE "empty"]

\* the tail of completeAnalysisInBackground: track:complete, then the queue's
\* .finally
sendComplete(s) ==
  /\ obs' = [obs EXCEPT ![s] = Append(@, FinalRecord(s))]
  /\ SettleTask(s, "done")

\* the first fsp.writeFile settles; a rejection rejects the task.  With a
\* dbFolder, ensureWaveformPng runs next: when it works the JSON is written a
\* second time, when it fails the code goes on to upsertTrack
jsonWritten(s) ==
  /\ bg[s] = "write1"
  /\ \E ok \in BOOLEAN :
       IF ~ok
       THEN /\ EndJsonWrite(s, FALSE)
            /\ SettleTask(s, "failed")
            /\ UNCHANGED <<obs, jsonWrites>>
       ELSE IF dbFolder
       THEN \E waveOk \in BOOLEAN :
              IF waveOk
              THEN /\ bg' = [bg EXCEPT ![s] = "write2"]
                   /\ BeginJsonWrite(s)
                   /\ UNCHANGED <<obs, backgroundQueue, activeBackgroundTasks, creativeSt>>
              ELSE /\ EndJsonWrite(s, TRUE)
                   /\ bg' = [bg EXCEPT ![s] = "load"]
                   /\ UNCHANGED <<obs, backgroundQueue, activeBackgroundTasks,
                                  creativeSt, jsonWrites>>
       ELSE /\ EndJsonWrite(s, TRUE)
            /\ sendComplete(s)
            /\ UNCHANGED jsonWrites
  /\ UNCHANGED <<envVars, queueVars, jsonVars, creativeVars, ensembleVars, tempoVars, storeVars, readyVars, cancelVars, mergeVars, finalizeVars, started, trackIndex, activeWorkers, tech, instrSt,
                 creativeRes, instrRes, storeWrites>>

\* the second fsp.writeFile settles; its rejection is caught.  upsertTrack is
\* called and awaits loadMain
jsonRewritten(s) ==
  /\ bg[s] = "write2"
  /\ \E ok \in BOOLEAN : EndJsonWrite(s, ok)
  /\ bg' = [bg EXCEPT ![s] = "load"]
  /\ UNCHANGED <<envVars, queueVars, jsonVars, creativeVars, ensembleVars, tempoVars, storeVars, readyVars, cancelVars, mergeVars, finalizeVars, started, trackIndex, activeWorkers, tech, creativeSt,
                 instrSt, creativeRes, instrRes, backgroundQueue,
                 activeBackgroundTasks, obs, jsonWrites, storeWrites>>

\* upsertTrack: loadMain resolved, the record is merged, saveMain begins
upsertLoaded(s) ==
  /\ bg[s] = "load"
  /\ bg' = [bg EXCEPT ![s] = "save"]
  /\ storeWrites' = [storeWrites EXCEPT ![s] = @ + 1]
  /\ UNCHANGED <<envVars, queueVars, jsonVars, creativeVars, ensembleVars, tempoVars, storeVars, readyVars, cancelVars, mergeVars, finalizeVars, started, trackIndex, activeWorkers, tech, creativeSt,
                 instrSt, creativeRes, instrRes, backgroundQueue,
                 activeBackgroundTasks, obs, jsonWrites, jsonFile>>

\* mutant: a failed saveMain is retried from loadMain
upsertSaved_retries(s) ==
  /\ bg[s] = "save"
  /\ \E ok \in BOOLEAN :
       IF ok THEN sendComplete(s)
       ELSE /\ bg' = [bg EXCEPT ![s] = "load"]
            /\ UNCHANGED <<obs, backgroundQueue, activeBackgroundTasks, creativeSt>>
  /\ UNCHANGED <<envVars, queueVars, jsonVars, creativeVars, ensembleVars, tempoVars, storeVars, readyVars, cancelVars, mergeVars, finalizeVars, started, trackIndex, activeWorkers, tech, instrSt,
                 creativeRes, instrRes, jsonWrites, storeWrites, jsonFile>>

\* upsertTrack: saveMain settled (a rejection is caught and logged), and so
\* has rebuildCriteria when settings.autoUpdateDb asks for it; the completion
\* events are sent
upsertSaved(s) ==
  /\ bg[s] = "save"
  /\ sendComplete(s)
  /\ UNCHANGED <<envVars, queueVars, jsonVars, creativeVars, ensembleVars, tempoVars, storeVars, readyVars, cancelVars, mergeVars, finalizeVars, started, trackIndex, activeWorkers, tech, instrSt,
                 creativeRes, instrRes, jsonWrites, storeWrites, jsonFile>>

Next ==
  \/ processQueue
  \/ \E s \in Subs : analyzeMp3Failed(s)
  \/ \E s \in Subs : analyzeMp3Complete(s)
  \/ \E s \in Subs : creativeDone(s)
  \/ \E s \in Subs : instrumentationDone(s)
  \/ \E s \in Subs : jsonWritten(s)
  \/ \E s \in Subs : jsonRewritten(s)
  \/ \E s \in Subs : upsertLoaded(s)
  \/ \E s \in Subs : upsertSaved(s)

Spec == Init /\ [][Next]_vars

(***************************************************************************)
(* Properties of the pipeline                                              *)
(***************************************************************************)
Running(st) == {s \in Subs : st[s] = "running"}
JsonWriters(p) == {s \in Subs : bg[s] \in {"write1", "write2"} /\ JsonOf(s) = p}
Persisting(s) == bg[s] \in {"write1", "write2", "load", "save"}
                 \/ jsonWrites[s] > 0 \/ storeWrites[s] > 0

\* C1: Creative or Instrumentation work of a submission exists only once the
\* Technical phase of that submission has completed, and so does anything
\* persisted for it.
C1_TechnicalFirst ==
  \A s \in Subs :
    (creativeSt[s] # "idle" \/ instrSt[s] # "idle" \/ Persisting(s))
      => tech[s] = "COMPLETE"

C1_Witness ==
  \E s, t \in Subs :
    /\ s # t
    /\ tech[s] = "COMPLETE" /\ instrSt[s] = "running"
    /\ tech[t] = "running"
    /\ \E u \in Subs : jsonWrites[u] > 0 /\ bg[u] = "done"

\* C2: in CONCURRENT mode Instrumentation of a started background task is
\* never held back while only Creative of the same track runs.
C2_InstrNotBlockedOnCreative ==
  mode = "CONCURRENT" =>
    \A s \in Subs : ~(creativeSt[s] = "running" /\ instrSt[s] = "idle")

\* C3: the per-file JSON is written and the store upserted only after both
\* background phases of the track have terminated, however they ended.
C3_PersistAfterBothPhases ==
  \A s \in Subs :
    Persisting(s) => (creativeSt[s] = "done" /\ instrSt[s] = "done")

C3_Witness ==
  \E s \in Subs :
    /\ creativeRes[s] \in {"offline", "error", "modelMissing"}
    /\ instrRes[s] = "error"
    /\ jsonWrites[s] > 0 /\ storeWrites[s] > 0

InstrumentationDegree == 4
C6_PoolsWithinDegree ==
  /\ Cardinality(Running(tech)) <= concurrency
  /\ Cardinality(Running(creativeSt)) <= creativeConcurrency
  /\ Cardinality(Running(instrSt)) <= InstrumentationDegree

\* C7: at most one upsert is between its read and its write of the main store.
C7_OneUpsertAtATime ==
  Cardinality({s \in Subs : bg[s] = "save"}) <= 1

\* C9: no persisted file ever holds partially written content at its final
\* path (here: the per-file JSON).
C9_NoPartialJson ==
  \A p \in JsonPaths : jsonFile[p] # "partial"

\* C10: at most one task at a time is writing a given per-file JSON path.
C10_SingleJsonWriter ==
  \A p \in JsonPaths : Cardinality(JsonWriters(p)) <= 1

\* background tasks that hold a slot of the background queue
ActiveBackground ==
  {s \in Subs : bg[s] \in {"creative", "instr", "write1", "write2", "load", "save"}}

\* nothing is in flight any more: no worker awaits analyzeFile, no background
\* task holds a slot
PipelineQuiet == started /\ Running(tech) = {} /\ ActiveBackground = {}

\* C11: an error in a phase of one track is caught at that phase's boundary
\* and never aborts the scheduler or the other tracks.  The worker pool and
\* the background queue keep exact count of what is in flight whatever has
\* failed, a waiting task always has a full queue ahead of it, and when
\* nothing is in flight every track has been through its phases: its
\* technical phase is settled and, unless its probe failed, its background
\* task is settled too.
C11_ErrorsNeverAbortScheduler ==
  /\ activeWorkers = Cardinality(Running(tech))
  /\ activeBackgroundTasks = Cardinality(ActiveBackground)
  /\ (\E s \in Subs : bg[s] = "queued") =>
       activeBackgroundTasks = MAX_BACKGROUND_CONCURRENCY
  /\ (started /\ \E s \in Subs : tech[s] = "queued") => activeWorkers > 0
  /\ PipelineQuiet =>
       \A s \in Subs :
         /\ tech[s] \in {"ERROR", "COMPLETE"}
         /\ tech[s] = "ERROR" => bg[s] = "none"
         /\ tech[s] = "COMPLETE" => bg[s] \in {"done", "failed"}
         /\ bg[s] = "done" => Len(obs[s]) = 2 /\ obs[s][2].type = "final"

\* a probe failed for one track, the JSON write of another was rejected, the
\* Creative call of a third gave an error, and a further track is complete
C11_Witness ==
  /\ PipelineQuiet
  /\ \E s \in Subs : tech[s] = "ERROR"
  /\ \E s \in Subs : bg[s] = "failed"
  /\ \E s \in Subs : \E t \in Subs \ {s} :
       /\ creativeRes[s] \in {"offline", "modelMissing", "error"}
       /\ bg[t] = "done" /\ Len(obs[t]) = 2

\* C12: only a failed probe skips record persistence.  A track whose probe
\* succeeded and whose background task ran to its end (track:complete was
\* sent, so no write was rejected) has had its per-file JSON written and its
\* record upserted into the main store, whatever Creative and Instrumentation
\* answered.
C12_ProbeOkIsPersisted ==
  \A s \in Subs :
    bg[s] = "done" => jsonWrites[s] >= 1 /\ storeWrites[s] >= 1

\* the object runCreativeAnalysis resolved with for s
creativeResult(s) ==
  CHOOSE r \in {runCreativeAnalysis(LlmConditions[i]) : i \in 1..Len(LlmConditions)} :
    CreativeOutcomes(r) = creativeRes[s]

\* the creative jobProgress event for s has been sent and the record built
CreativeReported(s) ==
  bg[s] \in {"write1", "write2", "load", "save", "done", "failed"}

\* C15: when the LLM endpoint is unreachable the record is still persisted
\* with creative at its defaults and creative_status "Ollama offline -
\* creative analysis skipped", and Instrumentation has run.
C15_OfflineStatusRecorded ==
  \A s \in Subs :
    (bg[s] = "done" /\ LlmConditionOf(s).tags = "unreachable"
                    /\ LlmConditionOf(s).post = "unreachable") =>
      /\ jsonWrites[s] >= 1
      /\ instrSt[s] = "done"
      /\ obs[s][2].creative = "default"
      /\ creativeStatus(creativeResult(s)) = "Ollama offline - creative analysis skipped"

\* C16: when the model is absent from the server's listing the Creative
\* phase returns defaults with a status string that names the model, and the
\* creative stage of the track is not reported as ERROR.
C16_ModelMissingNotErrored ==
  \A s \in Subs :
    (CreativeReported(s) /\ LlmConditionOf(s).tags = "ok" /\ ~LlmConditionOf(s).listed) =>
      /\ creativeRes[s] = "modelMissing"
      /\ creativeStatus(creativeResult(s)) =
           "Model 'qwen3:8b' not installed - run: ollama pull qwen3:8b"
      /\ creativeStageStatus(creativeResult(s)) # "ERROR"

(***************************************************************************)
(* The JSON store (jsondb.js)                                              *)
(***************************************************************************)
\* path.normalize on the paths at hand: runs of "/" collapse to one
RECURSIVE pathNormalize(_)
pathNormalize(p) ==
  IF Len(p) < 2 THEN p
  ELSE IF p[1] = "/" /\ p[2] = "/" THEN pathNormalize(Tail(p))
  ELSE <<p[1]>> \o pathNormalize(Tail(p))

\* normalizeKey(pth)
normalizeKey(p) ==
  IF p = <<>> THEN <<>> ELSE toLowerCase(replaceBackslashes(pathNormalize(p)))

\* the key under which the analysis of submission s is stored
storeKey == [s \in Subs |-> normalizeKey(tracksToProcess[s].path)]
KeyOf(s) == storeKey[s]

\* readJsonSafe(file, fallback) on the `tracks` of a store file: a missing
\* or unparseable file yields the fallback
readJsonSafe(file, fallback) == IF file.st = "ok" THEN file.tracks ELSE fallback

\* loadMain(paths)
loadMain == readJsonSafe(mainFile, {})

\* calls are numbered in the order in which they are made
NextCall(c) == callPc[c] = "idle" /\ \A d \in Calls : d < c => callPc[d] # "idle"

\* upsertTrack is called with the analysis of s (by a background task, or by
\* analyzeFile) and its `await loadMain(paths)` resolves
upsertTrack(c, s) ==
  /\ NextCall(c)
  /\ KeyOf(s) # <<>>
  /\ callSub' = [callSub EXCEPT ![c] = s]
  /\ callDb' = [callDb EXCEPT ![c] = loadMain]
  /\ callPc' = [callPc EXCEPT ![c] = "merge"]
  /\ UNCHANGED <<envVars, queueVars, jsonVars, creativeVars, ensembleVars, tempoVars, pipelineVars, readyVars, cancelVars, mergeVars, finalizeVars, autoUpdateDb, mainFile, tmpFile,
                 criteriaFile, committed>>

\* db.tracks[key] = merged; saveMain -> writeJsonSafe: fsp.writeFile opens
\* file + '.tmp' with truncation
mergeAndOpenTmp(c) ==
  /\ callPc[c] = "merge"
  /\ callDb' = [callDb EXCEPT ![c] = @ \cup {KeyOf(callSub[c])}]
  /\ tmpFile' = [st |-> "partial", tracks |-> {},
                 writers |-> tmpFile.writers \cup {c},
                 mixed |-> tmpFile.writers # {}]
  /\ callPc' = [callPc EXCEPT ![c] = "write"]
  /\ UNCHANGED <<envVars, queueVars, jsonVars, creativeVars, ensembleVars, tempoVars, pipelineVars, readyVars, cancelVars, mergeVars, finalizeVars, autoUpdateDb, mainFile, criteriaFile,
                 callSub, committed>>

\* what a file holds once call c has written all of its JSON into it: while
\* others still write it stays partial; after overlapping writes the bytes
\* may or may not parse
AfterWrite(file, c, parses) ==
  LET rest == file.writers \ {c}
  IN  IF rest # {}
      THEN [file EXCEPT !.writers = rest]
      ELSE IF file.mixed /\ ~parses
      THEN [st |-> "partial", tracks |-> {}, writers |-> {}, mixed |-> FALSE]
      ELSE [st |-> "ok", tracks |-> callDb[c], writers |-> {}, mixed |-> FALSE]

\* fsp.writeFile(tmp, ...) of call c resolves.  The bytes went to the file c
\* opened: still at the tmp path, or renamed onto RhythmDB.json by another
\* call meanwhile, or replaced there and no longer reachable by any path
writeFileDone(c) ==
  /\ callPc[c] = "write"
  /\ \E parses \in BOOLEAN :
       IF c \in tmpFile.writers
       THEN /\ tmpFile' = AfterWrite(tmpFile, c, parses)
            /\ UNCHANGED mainFile
       ELSE IF c \in mainFile.writers
       THEN /\ mainFile' = AfterWrite(mainFile, c, parses)
            /\ UNCHANGED tmpFile
       ELSE UNCHANGED <<mainFile, tmpFile>>
  /\ callPc' = [callPc EXCEPT ![c] = "rename"]
  /\ UNCHANGED <<envVars, queueVars, jsonVars, creativeVars, ensembleVars, tempoVars, pipelineVars, readyVars, cancelVars, mergeVars, finalizeVars, autoUpdateDb, criteriaFile, callSub,
                 callDb, committed>>

\* upsertTrack or rebuildCriteria returns or throws: its locals are gone
Return(c) ==
  /\ callSub' = [callSub EXCEPT ![c] = 1]
  /\ callDb' = [callDb EXCEPT ![c] = {}]

\* fsp.rename(tmp, file) of call c: whatever is at the tmp path replaces
\* RhythmDB.json and upsertTrack returns; with no file at the tmp path rename
\* rejects, upsertTrack rejects and its caller logs the error
renameTmp(c) ==
  /\ callPc[c] = "rename"
  /\ IF tmpFile.st = "absent"
     THEN /\ callPc' = [callPc EXCEPT ![c] = "failed"]
          /\ UNCHANGED <<mainFile, tmpFile, committed>>
     ELSE /\ mainFile' = tmpFile
          /\ tmpFile' = NoFile
          /\ committed' = IF readJsonSafe(tmpFile, {}) = callDb[c]
                          THEN committed \cup {KeyOf(callSub[c])}
                          ELSE committed
          /\ callPc' = [callPc EXCEPT ![c] = IF autoUpdateDb THEN "criteria" ELSE "done"]
  /\ Return(c)
  /\ UNCHANGED <<envVars, queueVars, jsonVars, creativeVars, ensembleVars, tempoVars, pipelineVars, readyVars, cancelVars, mergeVars, finalizeVars, autoUpdateDb, criteriaFile>>

\* rebuildCriteria, called after upsertTrack when settings.autoUpdateDb is
\* set, or by the rebuild handler of main.js: `await loadMain(paths)` resolves
rebuildCriteria(c) ==
  /\ NextCall(c) \/ callPc[c] = "criteria"
  /\ callDb' = [callDb EXCEPT ![c] = loadMain]
  /\ callPc' = [callPc EXCEPT ![c] = "criteriaWrite"]
  /\ UNCHANGED <<envVars, queueVars, jsonVars, creativeVars, ensembleVars, tempoVars, pipelineVars, readyVars, cancelVars, mergeVars, finalizeVars, autoUpdateDb, mainFile, tmpFile,
                 criteriaFile, callSub, committed>>

\* writeJsonSafe(paths.criteria, crit) resolves: CriteriaDB.json holds the
\* criteria of the tracks that were loaded
criteriaSaved(c) ==
  /\ callPc[c] = "criteriaWrite"
  /\ criteriaFile' = [st |-> "ok", tracks |-> callDb[c], writers |-> {}, mixed |-> FALSE]
  /\ callPc' = [callPc EXCEPT ![c] = "done"]
  /\ Return(c)
  /\ UNCHANGED <<envVars, queueVars, jsonVars, creativeVars, ensembleVars, tempoVars, pipelineVars, readyVars, cancelVars, mergeVars, finalizeVars, autoUpdateDb, mainFile, tmpFile, committed>>

InitStoreRun ==
  /\ mode = "CONCURRENT"
  /\ dbFolder = TRUE
  /\ techConcurrency = 0
  /\ autoUpdateDb \in BOOLEAN
  /\ InitPipeline
  /\ InitStore
  /\ InitReadyDone
  /\ InitCancel
  /\ InitMerge
  /\ InitFinalize
  /\ InitTempo
  /\ InitEnsemble
  /\ InitCreative
  /\ InitJson
  /\ InitQueue

NextStore ==
  \/ \E c \in Calls : \E s \in Subs : upsertTrack(c, s)
  \/ \E c \in Calls : mergeAndOpenTmp(c)
  \/ \E c \in Calls : writeFileDone(c)
  \/ \E c \in Calls : renameTmp(c)
  \/ \E c \in Calls : rebuildCriteria(c)
  \/ \E c \in Calls : criteriaSaved(c)

SpecStore == InitStoreRun /\ [][NextStore]_vars

(***************************************************************************)
(* Properties of the store                                                 *)
(***************************************************************************)
\* no call is inside upsertTrack or rebuildCriteria
StoreQuiet == \A c \in Calls : callPc[c] \in {"idle", "done", "failed"}

\* C8: a TrackRecord is never destroyed by the core: once the upserts and
\* criteria rebuilds under way have returned, every key that a completed
\* upsert wrote into the main store is still present in the main store.
C8_TrackRecordNeverDestroyed ==
  StoreQuiet => \A k \in committed : k \in loadMain

(***************************************************************************)
(* main.js: analyzeFile before and after renderer:ready                    *)
(***************************************************************************)
\* the analyzeFile handler runs for s, the oldest invocation not yet handled:
\* before rendererReady the submission is pushed on pendingAnalysis and its
\* promise stays open, afterwards analyzeMp3 is called at once
analyzeFile(s) ==
  /\ tech[s] = "running"
  /\ phase[s] = "none"
  /\ \A t \in Subs : t < s => ~(tech[t] = "running" /\ phase[t] = "none")
  /\ IF ~rendererReady
     THEN /\ pendingAnalysis' = Append(pendingAnalysis, s)
          /\ arrivals' = Append(arrivals, s)
          /\ phase' = [phase EXCEPT ![s] = "buffered"]
     ELSE /\ phase' = [phase EXCEPT ![s] = "analyzing"]
          /\ UNCHANGED <<pendingAnalysis, arrivals>>
  /\ UNCHANGED <<envVars, queueVars, jsonVars, creativeVars, ensembleVars, tempoVars, pipelineVars, storeVars, cancelVars, mergeVars, finalizeVars, rendererReady, readySignalled,
                 watchdogFired, drainPos, techLog>>

\* mutant: the listener calls analyzeMp3 for every held-back submission at once
drainStep_allAtOnce(ph, pos) ==
  IF pos <= Len(pendingAnalysis)
  THEN [phase |-> [s \in Subs |->
                     IF \E i \in pos..Len(pendingAnalysis) : pendingAnalysis[i] = s
                     THEN "analyzing" ELSE ph[s]],
        drainPos |-> pos,
        pending |-> pendingAnalysis,
        techLog |-> techLog \o SubSeq(pendingAnalysis, pos, Len(pendingAnalysis))]
  ELSE [phase |-> ph, drainPos |-> 0, pending |-> <<>>, techLog |-> techLog]

\* the `for (const {resolve, filePath} of pendingAnalysis)` loop of the
\* listener reaches position pos: it awaits analyzeMp3 for that entry, or,
\* past the end, empties pendingAnalysis
drainStep(ph, pos) ==
  IF pos <= Len(pendingAnalysis)
  THEN [phase |-> [ph EXCEPT ![pendingAnalysis[pos]] = "analyzing"],
        drainPos |-> pos,
        pending |-> pendingAnalysis,
        techLog |-> Append(techLog, pendingAnalysis[pos])]
  ELSE [phase |-> ph, drainPos |-> 0, pending |-> <<>>, techLog |-> techLog]

\* ipcMain.once('renderer:ready'): rendererReady is set and the loop over
\* pendingAnalysis begins
rendererReadyListener ==
  /\ ~readySignalled
  /\ readySignalled' = TRUE
  /\ rendererReady' = TRUE
  /\ LET r == drainStep(phase, 1)
     IN  /\ phase' = r.phase
         /\ drainPos' = r.drainPos
         /\ pendingAnalysis' = r.pending
         /\ techLog' = r.techLog
  /\ UNCHANGED <<envVars, queueVars, jsonVars, creativeVars, ensembleVars, tempoVars, pipelineVars, storeVars, cancelVars, mergeVars, finalizeVars, watchdogFired, arrivals>>

\* the setTimeout of createWindow: after 5 s rendererReady is assumed;
\* pendingAnalysis is left as it is
readyWatchdog ==
  /\ ~watchdogFired
  /\ watchdogFired' = TRUE
  /\ rendererReady' = TRUE
  /\ UNCHANGED <<envVars, queueVars, jsonVars, creativeVars, ensembleVars, tempoVars, pipelineVars, storeVars, cancelVars, mergeVars, finalizeVars, pendingAnalysis, readySignalled,
                 drainPos, phase, arrivals, techLog>>

\* analyzeMp3 settles for s and the submitter is answered (by the handler's
\* return, or by the listener's resolve); the renderer's worker goes on; for a
\* held-back submission the listener's loop moves to the next entry
analyzeFileReplied(s) ==
  /\ phase[s] = "analyzing"
  /\ \E ok \in BOOLEAN :
       IF ok
       THEN /\ enqueueBackgroundTask(s)
            /\ obs' = [obs EXCEPT ![s] = Append(@, PartialRecord)]
            /\ processNextTrack(s, "COMPLETE")
       ELSE /\ obs' = [obs EXCEPT ![s] = Append(@, ErrorResult)]
            /\ processNextTrack(s, "ERROR")
            /\ UNCHANGED <<bg, creativeSt, backgroundQueue, activeBackgroundTasks>>
  /\ IF drainPos > 0 /\ pendingAnalysis[drainPos] = s
     THEN LET r == drainStep([phase EXCEPT ![s] = "replied"], drainPos + 1)
          IN  /\ phase' = r.phase
              /\ drainPos' = r.drainPos
              /\ pendingAnalysis' = r.pending
              /\ techLog' = r.techLog
     ELSE /\ phase' = [phase EXCEPT ![s] = "replied"]
          /\ UNCHANGED <<drainPos, pendingAnalysis, techLog>>
  /\ UNCHANGED <<envVars, queueVars, jsonVars, creativeVars, ensembleVars, tempoVars, storeVars, cancelVars, mergeVars, finalizeVars, started, instrSt, creativeRes, instrRes,
                 jsonWrites, storeWrites, jsonFile, rendererReady, readySignalled,
                 watchdogFired, arrivals>>

InitReady ==
  /\ mode = "CONCURRENT"
  /\ dbFolder = FALSE
  /\ techConcurrency \in {0, 2}
  /\ autoUpdateDb = FALSE
  /\ InitPipeline
  /\ InitStore
  /\ rendererReady = FALSE
  /\ pendingAnalysis = <<>>
  /\ readySignalled = FALSE
  /\ watchdogFired = FALSE
  /\ drainPos = 0
  /\ phase = [s \in Subs |-> "none"]
  /\ arrivals = <<>>
  /\ techLog = <<>>
  /\ InitCancel
  /\ InitMerge
  /\ InitFinalize
  /\ InitTempo
  /\ InitEnsemble
  /\ InitCreative
  /\ InitJson
  /\ InitQueue

NextReady ==
  \/ processQueue
  \/ \E s \in Subs : analyzeFile(s)
  \/ rendererReadyListener
  \/ readyWatchdog
  \/ \E s \in Subs : analyzeFileReplied(s)

SpecReady == InitReady /\ [][NextReady]_vars

(***************************************************************************)
(* Properties of the handler before readiness                              *)
(***************************************************************************)
\* C13: submissions that arrive before the renderer has signalled readiness
\* are held back untouched; when the signal arrives they are analysed in
\* arrival order, one at a time, each only after the one before it was
\* answered; and a held-back track, like a direct one, gets its background
\* task only once its technical phase has completed and been answered.
C13_BufferedInArrivalOrder ==
  /\ ~readySignalled =>
       \A i \in 1..Len(arrivals) :
         /\ phase[arrivals[i]] = "buffered"
         /\ bg[arrivals[i]] = "none"
         /\ obs[arrivals[i]] = <<>>
  /\ Cardinality({i \in 1..Len(arrivals) : phase[arrivals[i]] = "analyzing"}) <= 1
  /\ Len(techLog) <= Len(arrivals)
  /\ \A i \in 1..Len(techLog) : techLog[i] = arrivals[i]
  /\ \A i \in 2..Len(techLog) : phase[techLog[i - 1]] = "replied"
  /\ \A s \in Subs :
       bg[s] # "none" =>
         phase[s] = "replied" /\ tech[s] = "COMPLETE" /\ obs[s] = <<PartialRecord>>

\* two or more submissions were held back, the signal came, and the loop has
\* been through all of them
C13_Witness ==
  /\ readySignalled
  /\ Len(arrivals) >= 2
  /\ techLog = arrivals
  /\ pendingAnalysis = <<>>
  /\ \A i \in 1..Len(arrivals) : phase[arrivals[i]] = "replied"
  /\ \E i \in 1..Len(arrivals) : bg[arrivals[i]] # "none"

(***************************************************************************)
(* renderer.js: Clear Queue while the analysis runs                        *)
(***************************************************************************)
\* the click handler of #clear-queue: `currentQueue = []` and a redraw.  The
\* workers of processQueue hold tracksToProcess, a filtered copy, and main is
\* not told: nothing else changes
clearQueue ==
  /\ started
  /\ ~queueCleared
  /\ queueCleared' = TRUE
  /\ writesAtClear' = [json |-> jsonWrites, store |-> storeWrites]
  /\ UNCHANGED <<envVars, queueVars, jsonVars, creativeVars, ensembleVars, tempoVars, pipelineVars, storeVars, readyVars, mergeVars, finalizeVars>>

InitClear ==
  /\ mode = "CONCURRENT"
  /\ dbFolder = TRUE
  /\ techConcurrency = 2
  /\ autoUpdateDb = FALSE
  /\ InitPipeline
  /\ InitStore
  /\ InitReadyDone
  /\ InitCancel
  /\ InitMerge
  /\ InitFinalize
  /\ InitTempo
  /\ InitEnsemble
  /\ InitCreative
  /\ InitJson
  /\ InitQueue

NextClear ==
  \/ Next
  \/ clearQueue

SpecClear == InitClear /\ [][NextClear]_vars

\* C14: after the tracks have been cancelled no data is persisted for them:
\* no write of a per-file JSON and no store upsert begins after the click.
C14_NothingPersistedAfterCancel ==
  queueCleared =>
    /\ jsonWrites = writesAtClear.json
    /\ storeWrites = writesAtClear.store

(***************************************************************************)
(* jsondb.js: mergeTrack, and upsertTrack / rebuildCriteria run alone      *)
(***************************************************************************)
MaxUpserts == 2
AnalyzedAt == 5

\* paths handed to upsertTrack: one file spelt with either separator, in
\* either case and with a doubled separator, and two other files
KeyPaths ==
  { PathSMp3, PathSUpper,
    <<"\\", "m", "\\", "s", ".", "m", "p", "3">>,
    <<"/", "M", "/", "S", ".", "M", "P", "3">>,
    <<"/", "m", "/", "/", "s", ".", "m", "p", "3">>,
    <<"\\", "m", "\\", "\\", "s", ".", "m", "p", "3">>,
    PathSOtherDir, PathPlain(1) }

\* the six places a record can carry instruments in, highest rank first; a
\* name tells which place it came from
InstrumentFields ==
  << <<"Brass (section)">>, <<"Trumpet">>, <<"Strings">>, <<"Violin">>,
     <<"Piano">>, <<"Keys">> >>

MkLists(on) ==
  [aFinal     |-> IF 1 \in on THEN InstrumentFields[1] ELSE <<>>,
   aInstr     |-> IF 2 \in on THEN InstrumentFields[2] ELSE <<>>,
   rFinal     |-> IF 3 \in on THEN InstrumentFields[3] ELSE <<>>,
   rInstr     |-> IF 4 \in on THEN InstrumentFields[4] ELSE <<>>,
   cSuggested |-> IF 5 \in on THEN InstrumentFields[5] ELSE <<>>,
   cInstrument |-> IF 6 \in on THEN InstrumentFields[6] ELSE <<>>]

\* which places are filled: none, one alone, or one and all below it
ListChoices == {{}} \cup {{i} : i \in 1..6} \cup {i..6 : i \in 1..6}

\* the records handed to upsertTrack
Analyses ==
  {[path |-> p, analyzed_at |-> t, lists |-> MkLists({})] :
     p \in KeyPaths, t \in {0, AnalyzedAt}}
  \cup
  {[path |-> PathSMp3, analyzed_at |-> AnalyzedAt, lists |-> MkLists(on)] :
     on \in ListChoices}

\* oldRec = {} of mergeTrack
NoRecord ==
  [path |-> <<>>, analyzed_at |-> 0, created_at |-> 0, updated_at |-> 0,
   instrument |-> <<>>, aFinal |-> <<>>, aInstr |-> <<>>]

\* unionInto(arr, values)
RECURSIVE unionInto(_, _)
unionInto(arr, values) ==
  IF values = <<>> THEN arr
  ELSE IF \E i \in 1..Len(arr) : arr[i] = Head(values)
  THEN unionInto(arr, Tail(values))
  ELSE unionInto(Append(arr, Head(values)), Tail(values))

\* instrumentsToMerge of mergeTrack
instrumentsToMerge(l) ==
  IF l.aFinal # <<>> THEN l.aFinal
  ELSE IF l.aInstr # <<>> THEN l.aInstr
  ELSE IF l.rFinal # <<>> THEN l.rFinal
  ELSE IF l.rInstr # <<>> THEN l.rInstr
  ELSE IF l.cSuggested # <<>> THEN l.cSuggested
  ELSE l.cInstrument

\* mutant: created_at is computed afresh by every upsert
mergeTrack_resetsCreated(oldRec, newRec, t) ==
  LET analyzed == IF newRec.analyzed_at # 0 THEN newRec.analyzed_at ELSE oldRec.analyzed_at
  IN  [path        |-> newRec.path,
       analyzed_at |-> analyzed,
       instrument  |-> unionInto(oldRec.instrument, instrumentsToMerge(newRec.lists)),
       aFinal      |-> IF newRec.lists.aFinal # <<>> THEN newRec.lists.aFinal ELSE oldRec.aFinal,
       aInstr      |-> IF newRec.lists.aInstr # <<>> THEN newRec.lists.aInstr ELSE oldRec.aInstr,
       updated_at  |-> t,
       created_at  |-> IF analyzed # 0 THEN analyzed ELSE t]

\* mergeTrack(oldRec, newRec) at time t.  Of newRec only the scalar keys, the
\* creative facets and `analysis` reach the stored record; the instrument
\* list chosen by instrumentsToMerge is united into creative.instrument
mergeTrack(oldRec, newRec, t) ==
  LET analyzed == IF newRec.analyzed_at # 0 THEN newRec.analyzed_at ELSE oldRec.analyzed_at
  IN  [path        |-> newRec.path,
       analyzed_at |-> analyzed,
       instrument  |-> unionInto(oldRec.instrument, instrumentsToMerge(newRec.lists)),
       aFinal      |-> IF newRec.lists.aFinal # <<>> THEN newRec.lists.aFinal ELSE oldRec.aFinal,
       aInstr      |-> IF newRec.lists.aInstr # <<>> THEN newRec.lists.aInstr ELSE oldRec.aInstr,
       updated_at  |-> t,
       created_at  |-> IF oldRec.created_at # 0 THEN oldRec.created_at
                       ELSE IF analyzed # 0 THEN analyzed ELSE t]

\* upsertTrack(paths, analysis), from loadMain to saveMain with no other call
\* in between
upsertTrackAlone(a) ==
  /\ Len(upsertLog) < MaxUpserts
  /\ normalizeKey(a.path) # <<>>
  /\ LET key == normalizeKey(a.path)
         prev == IF key \in DOMAIN tracksDb THEN tracksDb[key] ELSE NoRecord
         merged == mergeTrack(prev, a, now)
     IN  /\ tracksDb' = [k \in DOMAIN tracksDb \cup {key} |->
                           IF k = key THEN merged ELSE tracksDb[k]]
         /\ upsertLog' = Append(upsertLog,
                           [input |-> a, key |-> key, at |-> now,
                            created |-> merged.created_at,
                            used |-> instrumentsToMerge(a.lists)])
  /\ now' = now + 1
  /\ UNCHANGED <<envVars, queueVars, jsonVars, creativeVars, ensembleVars, tempoVars, pipelineVars, storeVars, readyVars, cancelVars,
                 finalizeVars, criteriaDb>>

\* add('instrument', value) of rebuildCriteria: the section tag is dropped
stripSection(name) == IF name = "Brass (section)" THEN "Brass" ELSE name

\* the list rebuildCriteria takes the instruments of stored record t from
criteriaInstruments(t) ==
  IF t.instrument # <<>> THEN t.instrument
  ELSE IF t.aFinal # <<>> THEN t.aFinal
  ELSE t.aInstr

\* rebuildCriteria(paths), run with no other call in between
rebuildCriteriaAlone ==
  /\ upsertLog # <<>>
  /\ criteriaDb' =
       [built |-> TRUE,
        tracks |-> tracksDb,
        instrument |->
          UNION {{stripSection(criteriaInstruments(tracksDb[k])[i]) :
                    i \in 1..Len(criteriaInstruments(tracksDb[k]))} :
                 k \in DOMAIN tracksDb}]
  /\ UNCHANGED <<envVars, queueVars, jsonVars, creativeVars, ensembleVars, tempoVars, pipelineVars, storeVars, readyVars, cancelVars,
                 finalizeVars, tracksDb, now, upsertLog>>

InitMergeRun ==
  /\ mode = "CONCURRENT"
  /\ dbFolder = TRUE
  /\ techConcurrency = 0
  /\ autoUpdateDb = FALSE
  /\ InitPipeline
  /\ InitStore
  /\ InitReadyDone
  /\ InitCancel
  /\ InitMerge
  /\ InitFinalize
  /\ InitTempo
  /\ InitEnsemble
  /\ InitCreative
  /\ InitJson
  /\ InitQueue

NextMerge ==
  \/ \E a \in Analyses : upsertTrackAlone(a)
  \/ rebuildCriteriaAlone

SpecMerge == InitMergeRun /\ [][NextMerge]_vars

----------------------------------------------------------------------------
\* Properties of the store under sequential upserts

IsSeparator(ch) == ch \in {"/", "\\"}

\* p and q differ only in separator style or in letter case
SameButStyle(p, q) ==
  /\ Len(p) = Len(q)
  /\ \A i \in 1..Len(p) :
       \/ p[i] = q[i]
       \/ IsSeparator(p[i]) /\ IsSeparator(q[i])
       \/ toLowerChar(p[i]) = toLowerChar(q[i])

UpsertsOf(k) == {i \in 1..Len(upsertLog) : upsertLog[i].key = k}

FirstUpsertOf(k) == CHOOSE i \in UpsertsOf(k) : \A j \in UpsertsOf(k) : i <= j

LastUpsertOf(k) == CHOOSE i \in UpsertsOf(k) : \A j \in UpsertsOf(k) : j <= i

\* C17: two upserted paths that differ only in separator style or in letter
\* case have the same key, and together leave exactly one tracks entry
C17_StyleVariantsShareOneEntry ==
  \A i, j \in 1..Len(upsertLog) :
    SameButStyle(upsertLog[i].input.path, upsertLog[j].input.path) =>
      /\ upsertLog[i].key = upsertLog[j].key
      /\ Cardinality({k \in DOMAIN tracksDb :
                        k \in {upsertLog[i].key, upsertLog[j].key}}) = 1

\* C18: for every key, created_at is the value the first upsert of the key
\* set and no later upsert of the key changes it, while updated_at is the
\* time of the latest upsert of the key
C18_CreatedOnceUpdatedAlways ==
  \A k \in DOMAIN tracksDb :
    /\ UpsertsOf(k) # {}
    /\ upsertLog[FirstUpsertOf(k)].created # 0
    /\ \A i \in UpsertsOf(k) : upsertLog[i].created = upsertLog[FirstUpsertOf(k)].created
    /\ tracksDb[k].created_at = upsertLog[FirstUpsertOf(k)].created
    /\ tracksDb[k].updated_at = upsertLog[LastUpsertOf(k)].at

\* a key upserted twice, under two spellings of the path, the second upsert
\* carrying an analysis time of its own
C18_Witness ==
  \E k \in DOMAIN tracksDb :
    /\ Cardinality(UpsertsOf(k)) = 2
    /\ upsertLog[1].input.path # upsertLog[2].input.path
    /\ upsertLog[1].input.analyzed_at = 0
    /\ upsertLog[2].input.analyzed_at = AnalyzedAt
    /\ tracksDb[k].created_at = FirstInstant
    /\ tracksDb[k].updated_at = FirstInstant + 1

\* the list the stated order picks from the lists of an upserted record
StatedOrderOfInput(l) ==
  IF l.aFinal # <<>> THEN l.aFinal
  ELSE IF l.aInstr # <<>> THEN l.aInstr
  ELSE IF l.rFinal # <<>> THEN l.rFinal
  ELSE IF l.rInstr # <<>> THEN l.rInstr
  ELSE IF l.cSuggested # <<>> THEN l.cSuggested
  ELSE l.cInstrument

\* the list the stated order picks from the lists of a stored record
StatedOrderOfStored(t) ==
  IF t.aFinal # <<>> THEN t.aFinal
  ELSE IF t.aInstr # <<>> THEN t.aInstr
  ELSE t.instrument

\* C19: every upsert merges the first non-empty list in the stated order, and
\* a criteria rebuild takes from every stored record the first non-empty list
\* in that same order
C19_SamePrecedenceEverywhere ==
  /\ \A i \in 1..Len(upsertLog) :
       upsertLog[i].used = StatedOrderOfInput(upsertLog[i].input.lists)
  /\ criteriaDb.built =>
       criteriaDb.instrument =
         UNION {{stripSection(StatedOrderOfStored(criteriaDb.tracks[k])[i]) :
                   i \in 1..Len(StatedOrderOfStored(criteriaDb.tracks[k]))} :
                k \in DOMAIN criteriaDb.tracks}

----------------------------------------------------------------------------
\* analysis/finalize_instruments.js, the module the analyzers import

MaxListLen == 2

\* labels handed to the finalizer: aliases, family members, section labels,
\* bowed and pad instruments, a label with surrounding blanks, a blank label
Labels ==
  {"Trumpet", "Trumpet ", "Brass", "Brass (section)", "Flute", "Woodwinds",
   "Woodwinds (section)", "Strings", "Strings (section)", "Violin", "Organ",
   "Hammond organ", "Drums", " "}

\* probe hints
Hints == {"Trumpet", "Brass", "Strings", "Organ"}

trim(label) ==
  IF label = "Trumpet " THEN "Trumpet"
  ELSE IF label = " " THEN ""
  ELSE label

CANON_ALIASES ==
  [l \in {"Drum set", "Drums", "Electric organ", "Hammond organ", "Strings",
          "Brass", "Guitars"} |->
     CASE l = "Drum set" -> "Drum Kit (acoustic)"
       [] l = "Drums" -> "Drum Kit (acoustic)"
       [] l = "Electric organ" -> "Organ"
       [] l = "Hammond organ" -> "Organ"
       [] l = "Strings" -> "Strings (section)"
       [] l = "Brass" -> "Brass (section)"
       [] l = "Guitars" -> "Electric Guitar"]

normalize(label) ==
  IF trim(label) \in DOMAIN CANON_ALIASES THEN CANON_ALIASES[trim(label)]
  ELSE trim(label)

BRASS_MEMBERS ==
  {"Trumpet", "Trombone", "French Horn", "Tuba", "Flugelhorn", "Cornet",
   "Trumpet (mute)", "Trumpet (muted)"}

WOODWIND_MEMBERS ==
  {"Saxophone", "Alto Saxophone", "Tenor Saxophone", "Baritone Saxophone",
   "Flute", "Clarinet", "Oboe", "Bassoon", "Piccolo"}

Bowed == {"Violin", "Viola", "Cello", "Double Bass"}

Pads == {"Organ", "Electric organ", "Hammond organ", "Keyboard", "Synth"}

\* the stable dedupe loop: blank labels skipped, first occurrence kept
RECURSIVE dedupe(_, _)
dedupe(merged, out) ==
  IF merged = <<>> THEN out
  ELSE IF Head(merged) = "" \/ (\E i \in 1..Len(out) : out[i] = Head(merged))
  THEN dedupe(Tail(merged), out)
  ELSE dedupe(Tail(merged), Append(out, Head(merged)))

\* the family blocks: members removed, section label and family label added
collapseFamily(outSet, members, section, family) ==
  IF outSet \cap members # {} \/ section \in outSet
  THEN (outSet \ members) \cup {section, family}
  ELSE outSet

\* the Strings soft guard
softGuard(outSet) ==
  IF /\ "Strings (section)" \in outSet
     /\ outSet \cap Bowed = {}
     /\ outSet \cap Pads # {}
  THEN outSet \ {"Strings (section)"}
  ELSE outSet

\* the family labels appended after the labels kept from `out`
RECURSIVE appendFamilies(_, _, _)
appendFamilies(final, families, S) ==
  IF families = <<>> THEN final
  ELSE IF Head(families) \in S /\ ~(\E i \in 1..Len(final) : final[i] = Head(families))
  THEN appendFamilies(Append(final, Head(families)), Tail(families), S)
  ELSE appendFamilies(final, Tail(families), S)

finalizeInstruments(ensembleInstruments, probeRescues, additional) ==
  LET all == ensembleInstruments \o probeRescues \o additional
      merged == [i \in 1..Len(all) |-> normalize(all[i])]
      out == dedupe(merged, <<>>)
      outSet == {out[i] : i \in 1..Len(out)}
      afterBrass == collapseFamily(outSet, BRASS_MEMBERS, "Brass (section)", "Brass")
      afterWood == collapseFamily(afterBrass, WOODWIND_MEMBERS,
                                  "Woodwinds (section)", "Woodwinds")
      S == softGuard(afterWood)
      kept == SelectSeq(out, LAMBDA l : l \in S)
  IN  appendFamilies(kept, <<"Brass", "Woodwinds">>, S)

ListsUpTo(set, n) == UNION {[1..k -> set] : k \in 0..n}

\* lists of three labels that the ensemble emits
EnsembleTriples ==
  { <<"Trumpet", "Trombone", "Violin">>, <<"Strings", "Organ", "Brass">> }

EnsembleLists == ListsUpTo(Labels, MaxListLen) \cup EnsembleTriples

\* completeAnalysisInBackground fills analysis.finalInstruments: the result of
\* the finalizer when require('./finalize_instruments') gives a function, and
\* analysis.instruments as it is when the require throws
finalInstrumentsOf(loads, instruments, probe_rescues, additional) ==
  IF loads THEN finalizeInstruments(instruments, probe_rescues, additional)
  ELSE instruments

\* an analysis calls the finalizer on its lists
finalizeCall ==
  /\ finalization.pc = "idle"
  /\ \E x \in EnsembleLists, y \in ListsUpTo(Hints, 1),
        z \in ListsUpTo(Labels, 1), loads \in BOOLEAN :
       finalization' = [pc |-> "once", x |-> x, y |-> y, z |-> z,
                        once |-> finalizeInstruments(x, y, z), twice |-> NoList,
                        loads |-> loads,
                        finalInstruments |-> finalInstrumentsOf(loads, x, y, z)]
  /\ UNCHANGED <<envVars, queueVars, jsonVars, creativeVars, ensembleVars, tempoVars, pipelineVars, storeVars, readyVars, cancelVars, mergeVars>>

\* the returned list is finalized again, with no rescues and no additions
finalizeAgain ==
  /\ finalization.pc = "once"
  /\ finalization' = [finalization EXCEPT
                        !.pc = "twice",
                        !.twice = finalizeInstruments(finalization.once, <<>>, <<>>)]
  /\ UNCHANGED <<envVars, queueVars, jsonVars, creativeVars, ensembleVars, tempoVars, pipelineVars, storeVars, readyVars, cancelVars, mergeVars>>

InitFinalizeRun ==
  /\ mode = "CONCURRENT"
  /\ dbFolder = TRUE
  /\ techConcurrency = 0
  /\ autoUpdateDb = FALSE
  /\ InitPipeline
  /\ InitStore
  /\ InitReadyDone
  /\ InitCancel
  /\ InitMerge
  /\ InitFinalize
  /\ InitTempo
  /\ InitEnsemble
  /\ InitCreative
  /\ InitJson
  /\ InitQueue

NextFinalize == finalizeCall \/ finalizeAgain

SpecFinalize == InitFinalizeRun /\ [][NextFinalize]_vars

\* C20: finalizing the result of a finalization again, with two empty lists,
\* returns that result unchanged
C20_FinalizeIdempotent ==
  finalization.pc = "twice" => finalization.twice = finalization.once

\* the labels of a list
Elems(list) == {list[i] : i \in 1..Len(list)}

\* the labels handed to the finalizer, in the three lists together
FinalizeInput == Elems(finalization.x \o finalization.y \o finalization.z)

STRING_MEMBERS == {"Violin", "Viola", "Cello", "Double Bass", "Harp"}

\* a member of the family in the input puts the family label in the output
\* and leaves no member of the family there
FamilyClosed(members, family) ==
  FinalizeInput \cap members # {} =>
    /\ family \in Elems(finalization.once)
    /\ Elems(finalization.once) \cap members = {}

\* C21: after a finalization whose input has a brass member, the output has
\* "Brass" and no brass member; likewise woodwind members and "Woodwinds",
\* and the string members and "Strings"
C21_FamilyClosure ==
  finalization.pc # "idle" =>
    /\ FamilyClosed(BRASS_MEMBERS, "Brass")
    /\ FamilyClosed(WOODWIND_MEMBERS, "Woodwinds")
    /\ FamilyClosed(STRING_MEMBERS, "Strings")

\* the finalizer was handed exactly this list
FinalizedExactly(list) ==
  /\ finalization.pc # "idle"
  /\ finalization.x \o finalization.y \o finalization.z = list

\* C22: finalizing exactly ["Strings", "Organ"] gives ["Organ"], and
\* finalizing exactly ["Strings", "Organ", "Brass"] gives
\* ["Brass", "Strings", "Organ"]
C22_StringsSoftGuard ==
  /\ FinalizedExactly(<<"Strings", "Organ">>) =>
       finalization.once = <<"Organ">>
  /\ FinalizedExactly(<<"Strings", "Organ", "Brass">>) =>
       finalization.once = <<"Brass", "Strings", "Organ">>

\* C23: when the ensemble emits ["Trumpet", "Trombone", "Violin"] and nothing
\* else is handed to the finalizer, the final list of the record is exactly
\* ["Brass", "Violin"]
C23_FamilyCollapseScenario ==
  ( /\ finalization.pc # "idle"
    /\ finalization.x = <<"Trumpet", "Trombone", "Violin">>
    /\ finalization.y = <<>>
    /\ finalization.z = <<>> ) =>
      finalization.finalInstruments = <<"Brass", "Violin">>

----------------------------------------------------------------------------
\* analysis/ffcalc.js: tempo estimate, TBPM frame, override, tempo fields of
\* the record.  A number is held as its count of tenths.

null == [kind |-> "null", tenths |-> 0]

NaN == [kind |-> "NaN", tenths |-> 0]

\* the number n / 10
Number(n) == [kind |-> "number", tenths |-> n]

\* what the estimators return: nothing, a whole tempo, a fractional tempo
Estimates == {null, Number(980), Number(1480), Number(1476)}

\* the text of the TBPM frame of the file, "absent" when it has none
Frames == {"absent", "", "148", "148 bpm", "148.2", "148.6", "98", "1",
           "399", "400", "0", "abc"}

\* findFrame('TBPM') ? parseFloat(findFrame('TBPM')) : null
parseFloatTBPM(frame) ==
  CASE frame = "absent" -> null
    [] frame = "" -> null
    [] frame = "148" -> Number(1480)
    [] frame = "148 bpm" -> Number(1480)
    [] frame = "148.2" -> Number(1482)
    [] frame = "148.6" -> Number(1486)
    [] frame = "98" -> Number(980)
    [] frame = "1" -> Number(10)
    [] frame = "399" -> Number(3990)
    [] frame = "400" -> Number(4000)
    [] frame = "0" -> Number(0)
    [] frame = "abc" -> NaN

\* Math.round of a positive number
round(n) == ((n + 5) \div 10) * 10

\* parseId3BpmSafe, on the number or null that id3Tags.bpm holds
parseId3BpmSafe(v) ==
  IF v.kind # "number" THEN null
  ELSE IF v.tenths > 0 /\ v.tenths < 4000 THEN Number(round(v.tenths))
  ELSE null

\* analyzeMp3: estimateTempoThirds, and estimateTempoACF when it gave null
estimateTempo ==
  /\ tempoRun.pc = "idle"
  /\ \E thirds \in Estimates, acf \in Estimates :
       tempoRun' = [tempoRun EXCEPT
                      !.pc = "estimated",
                      !.finalBpm = IF thirds = null THEN acf ELSE thirds,
                      !.tempoSource = IF thirds = null THEN "acf_fallback"
                                      ELSE "thirds"]
  /\ UNCHANGED <<envVars, queueVars, jsonVars, creativeVars, ensembleVars, pipelineVars, storeVars, readyVars, cancelVars,
                 mergeVars, finalizeVars>>

\* analyzeMp3: the tags are read from the file
extractId3Tags ==
  /\ tempoRun.pc = "estimated"
  /\ \E frame \in Frames :
       tempoRun' = [tempoRun EXCEPT
                      !.pc = "tagged",
                      !.TBPM = frame,
                      !.id3Bpm = parseFloatTBPM(frame)]
  /\ UNCHANGED <<envVars, queueVars, jsonVars, creativeVars, ensembleVars, pipelineVars, storeVars, readyVars, cancelVars,
                 mergeVars, finalizeVars>>

\* completeAnalysisInBackground: the override block, and the tempo fields of
\* the analysis object built after it
bpmOverride ==
  /\ tempoRun.pc = "tagged"
  /\ LET id3Parsed == parseId3BpmSafe(tempoRun.id3Bpm)
         overrides == id3Parsed # null /\ tempoRun.finalBpm # id3Parsed
         finalBpm == IF overrides THEN id3Parsed ELSE tempoRun.finalBpm
         tempoSource == IF overrides THEN "id3" ELSE tempoRun.tempoSource
     IN  tempoRun' = [tempoRun EXCEPT
                        !.pc = "recorded",
                        !.finalBpm = finalBpm,
                        !.tempoSource = tempoSource,
                        !.bpm = finalBpm,
                        !.tempo_source = tempoSource]
  /\ UNCHANGED <<envVars, queueVars, jsonVars, creativeVars, ensembleVars, pipelineVars, storeVars, readyVars, cancelVars,
                 mergeVars, finalizeVars>>

InitTempoRun ==
  /\ mode = "CONCURRENT"
  /\ dbFolder = TRUE
  /\ techConcurrency = 0
  /\ autoUpdateDb = FALSE
  /\ InitPipeline
  /\ InitStore
  /\ InitReadyDone
  /\ InitCancel
  /\ InitMerge
  /\ InitFinalize
  /\ InitTempo
  /\ InitEnsemble
  /\ InitCreative
  /\ InitJson
  /\ InitQueue

NextTempo == estimateTempo \/ extractId3Tags \/ bpmOverride

SpecTempo == InitTempoRun /\ [][NextTempo]_vars

\* the TBPM frames that parse to a whole tempo from 1 to 399, with that tempo
WholeTempoOf ==
  [frame \in {"148", "148 bpm", "98", "1", "399"} |->
     CASE frame = "148" -> 148
       [] frame = "148 bpm" -> 148
       [] frame = "98" -> 98
       [] frame = "1" -> 1
       [] frame = "399" -> 399]

\* C24: whatever the estimators returned, a TBPM frame that parses to a whole
\* tempo from 1 to 399 gives a record with that tempo as bpm and with
\* tempo_source "id3"
C24_TagOverridesEstimate ==
  (tempoRun.pc = "recorded" /\ tempoRun.TBPM \in DOMAIN WholeTempoOf) =>
     /\ tempoRun.bpm = Number(WholeTempoOf[tempoRun.TBPM] * 10)
     /\ tempoRun.tempo_source = "id3"

----------------------------------------------------------------------------
\* analysis/ensemble_runner.js (analyzeWithEnsemble) and its caller in
\* analysis/ffcalc.js (runInstrumentationAnalysis).  Probabilities and ratios
\* are counted in thousandths.

MEAN_ANY == 6
POS_ANY == 20
PANN_POS_BONUS == 60
MAX_PICKS == 4

CORE ==
  << "acoustic_guitar", "electric_guitar", "bass_guitar", "drum_kit",
     "piano", "organ", "brass", "strings" >>

pretty(k) ==
  CASE k = "drum_kit" -> "Drum Kit (acoustic)"
    [] k = "bass_guitar" -> "Bass Guitar"
    [] k = "electric_guitar" -> "Electric Guitar"
    [] k = "acoustic_guitar" -> "Acoustic Guitar"
    [] k = "piano" -> "Piano"
    [] k = "organ" -> "Organ"
    [] k = "brass" -> "Brass (section)"
    [] k = "strings" -> "Strings (section)"

\* per_model figures of one key: panns and yamnet mean_probs and pos_ratio
Evidence ==
  [ none      |-> [mP |-> 0,   rP |-> 0,   mY |-> 0,   rY |-> 0],
    weak      |-> [mP |-> 3,   rP |-> 10,  mY |-> 0,   rY |-> 0],
    posPanns  |-> [mP |-> 10,  rP |-> 70,  mY |-> 0,   rY |-> 0],
    meanAndPos |-> [mP |-> 4,  rP |-> 12,  mY |-> 4,   rY |-> 12],
    strong    |-> [mP |-> 300, rP |-> 500, mY |-> 100, rY |-> 100] ]

\* the decision traces of the classifier: figures for the first keys of CORE
\* and nothing for the others
TracedKeys == 5

Traces ==
  { [i \in 1..Len(CORE) |-> IF i <= TracedKeys THEN f[i] ELSE "none"] :
      f \in [1..TracedKeys -> {"none", "weak", "posPanns", "meanAndPos", "strong"}] }

\* what the classifier wrote to --json-out
Outputs ==
  { [instruments |-> i, used_demucs |-> d, decision_trace |-> t] :
      i \in {<<>>, <<"Piano">>}, d \in BOOLEAN, t \in Traces \cup {<<>>} }

\* how the run of the classifier goes
Conditions ==
  { "noVenv", "noScript", "spawnError", "nonZeroExit", "unreadableOutput",
    "unparseableOutput", "ok" }

meanCombined(t, i) == Evidence[t[i]].mP + Evidence[t[i]].mY

posCombined(t, i) == Evidence[t[i]].rP + Evidence[t[i]].rY

pass(t, i) ==
  \/ meanCombined(t, i) >= MEAN_ANY /\ posCombined(t, i) >= POS_ANY
  \/ Evidence[t[i]].rP >= PANN_POS_BONUS

\* meanCombined * 0.7 + posCombined * 0.3, times ten
score(t, i) == meanCombined(t, i) * 7 + posCombined(t, i) * 3

\* candidates.sort((a, b) => b.score - a.score): a stable insertion of the
\* index i into a list sorted by falling score
RECURSIVE insertByScore(_, _, _)
insertByScore(t, sorted, i) ==
  IF sorted = <<>> THEN <<i>>
  ELSE IF score(t, Head(sorted)) >= score(t, i)
  THEN <<Head(sorted)>> \o insertByScore(t, Tail(sorted), i)
  ELSE <<i>> \o sorted

RECURSIVE sortCandidates(_, _, _)
sortCandidates(t, sorted, i) ==
  IF i > Len(CORE) THEN sorted
  ELSE IF pass(t, i) THEN sortCandidates(t, insertByScore(t, sorted, i), i + 1)
  ELSE sortCandidates(t, sorted, i + 1)

\* the picks of the mix-only rescue block
rescuePicks(t) ==
  LET candidates == sortCandidates(t, <<>>, 1)
      n == IF Len(candidates) < MAX_PICKS THEN Len(candidates) ELSE MAX_PICKS
  IN  [j \in 1..n |-> pretty(CORE[candidates[j]])]

\* analyzeWithEnsemble up to execFile: the two existsSync checks reject
analyzeWithEnsemble ==
  /\ ensembleRun.pc = "idle"
  /\ \E c \in Conditions, o \in Outputs :
       ensembleRun' =
         [ensembleRun EXCEPT
            !.condition = c,
            !.output = IF c = "ok" THEN o ELSE "none",
            !.pc = IF c \in {"noVenv", "noScript"} THEN "settled" ELSE "running",
            !.settled = IF c \in {"noVenv", "noScript"} THEN "rejected"
                        ELSE "pending"]
  /\ UNCHANGED <<envVars, queueVars, jsonVars, creativeVars, pipelineVars, storeVars, readyVars, cancelVars,
                 mergeVars, finalizeVars, tempoVars>>

\* child.on("error")
childError ==
  /\ ensembleRun.pc = "running"
  /\ ensembleRun.condition = "spawnError"
  /\ ensembleRun' = [ensembleRun EXCEPT !.pc = "settled", !.settled = "rejected"]
  /\ UNCHANGED <<envVars, queueVars, jsonVars, creativeVars, pipelineVars, storeVars, readyVars, cancelVars,
                 mergeVars, finalizeVars, tempoVars>>

\* the callback of execFile: err rejects; an output that cannot be read or
\* parsed rejects; otherwise the rescue block may replace parsed.instruments,
\* and the promise is resolved with `result`, the object read from the file
execFileCallback ==
  /\ ensembleRun.pc = "running"
  /\ ensembleRun.condition # "spawnError"
  /\ IF ensembleRun.condition # "ok"
     THEN ensembleRun' = [ensembleRun EXCEPT !.pc = "settled", !.settled = "rejected"]
     ELSE LET result == ensembleRun.output
              rescues == result.instruments = <<>> /\ result.decision_trace # <<>>
              picks == IF rescues THEN rescuePicks(result.decision_trace) ELSE <<>>
          IN  ensembleRun' = [ensembleRun EXCEPT
                                !.pc = "settled",
                                !.settled = "resolved",
                                !.picks = picks,
                                !.instruments = result.instruments]
  /\ UNCHANGED <<envVars, queueVars, jsonVars, creativeVars, pipelineVars, storeVars, readyVars, cancelVars,
                 mergeVars, finalizeVars, tempoVars>>

\* runInstrumentationAnalysis returns the resolved value, or after a
\* rejection { error, instruments: [] }
runInstrumentationAnalysis ==
  /\ ensembleRun.pc = "settled"
  /\ ensembleRun' = [ensembleRun EXCEPT
                       !.pc = "returned",
                       !.returned = IF ensembleRun.settled = "resolved"
                                    THEN ensembleRun.instruments ELSE <<>>]
  /\ UNCHANGED <<envVars, queueVars, jsonVars, creativeVars, pipelineVars, storeVars, readyVars, cancelVars,
                 mergeVars, finalizeVars, tempoVars>>

InitEnsembleRun ==
  /\ mode = "CONCURRENT"
  /\ dbFolder = TRUE
  /\ techConcurrency = 0
  /\ autoUpdateDb = FALSE
  /\ InitPipeline
  /\ InitStore
  /\ InitReadyDone
  /\ InitCancel
  /\ InitMerge
  /\ InitFinalize
  /\ InitTempo
  /\ InitEnsemble
  /\ InitCreative
  /\ InitJson
  /\ InitQueue

NextEnsemble ==
  \/ analyzeWithEnsemble
  \/ childError
  \/ execFileCallback
  \/ runInstrumentationAnalysis

SpecEnsemble == InitEnsembleRun /\ [][NextEnsemble]_vars

\* the classifier returned no instruments without stem separation and left a
\* decision trace
MixOnlyEmpty ==
  /\ ensembleRun.pc = "returned"
  /\ ensembleRun.condition = "ok"
  /\ ensembleRun.output.instruments = <<>>
  /\ ~ensembleRun.output.used_demucs
  /\ ensembleRun.output.decision_trace # <<>>

\* C25: when the classifier returns no instruments in a mix-only run, the
\* ranked picks of the rescue are among the instruments the track gets; with
\* the figures 0.01 and 0.07 from panns and 0 and 0 from yamnet for
\* electric_guitar these contain "Electric Guitar"
C25_MixOnlyRescueReachesTrack ==
  MixOnlyEmpty =>
    /\ Elems(ensembleRun.picks) \subseteq Elems(ensembleRun.returned)
    /\ ( /\ ensembleRun.output.decision_trace[2] = "posPanns"
         /\ \A i \in (1..Len(CORE)) \ {2} : ensembleRun.output.decision_trace[i] = "none" )
         => "Electric Guitar" \in Elems(ensembleRun.returned)

\* C26: analyzeWithEnsemble never rejects: whatever happens to the classifier
\* process, its promise is resolved
C26_AdapterAlwaysResolves ==
  ensembleRun.settled # "rejected"

----------------------------------------------------------------------------
\* analysis/ffcalc.js: the vocals of the creative facts, from the answer of
\* the LLM or from the defaults, to the record

MaxVocals == 2

\* the vocals entries an answer of the LLM may carry
RawVocals == {"Lead Vocals", "singer", "female vocals", " VOX ", "humming", ""}

\* String(raw).trim().toLowerCase()
vocalKey(raw) ==
  CASE raw = "Lead Vocals" -> "lead vocals"
    [] raw = " VOX " -> "vox"
    [] OTHER -> raw

VOCAL_SYNONYMS ==
  [k \in {"lead vocal", "lead singer", "singer", "vox", "lead vox",
          "main vocal", "male vocal", "male singer", "female vocal",
          "female singer", "backing vocals", "backing vocal", "bg vocals",
          "vocal sample", "vocal chops"} |->
     CASE k \in {"lead vocal", "lead singer", "singer", "vox", "lead vox",
                 "main vocal"} -> "Lead Vocals"
       [] k \in {"male vocal", "male singer"} -> "Male Vocals"
       [] k \in {"female vocal", "female singer"} -> "Female Vocals"
       [] k \in {"backing vocals", "backing vocal", "bg vocals"} -> "Background Vocals"
       [] k \in {"vocal sample", "vocal chops"} -> "Vocal Samples"]

\* ENVATO_TAXONOMY.vocals, each entry under its lower-case form
TaxonomyVocals ==
  [k \in {"no vocals", "background vocals", "female vocals", "lead vocals",
          "vocal samples", "male vocals"} |->
     CASE k = "no vocals" -> "No Vocals"
       [] k = "background vocals" -> "Background Vocals"
       [] k = "female vocals" -> "Female Vocals"
       [] k = "lead vocals" -> "Lead Vocals"
       [] k = "vocal samples" -> "Vocal Samples"
       [] k = "male vocals" -> "Male Vocals"]

\* the loop of normalizeVocals, with the duplicates dropped as it goes
RECURSIVE mapVocals(_, _)
mapVocals(list, normalized) ==
  IF list = <<>> THEN normalized
  ELSE LET raw == Head(list)
           key == vocalKey(raw)
           mapped == IF key \in DOMAIN VOCAL_SYNONYMS THEN VOCAL_SYNONYMS[key]
                     ELSE IF key \in DOMAIN TaxonomyVocals THEN TaxonomyVocals[key]
                     ELSE ""
       IN  IF raw = "" \/ mapped = "" \/ mapped \in Elems(normalized)
           THEN mapVocals(Tail(list), normalized)
           ELSE mapVocals(Tail(list), Append(normalized, mapped))

normalizeVocals(list) ==
  IF list = <<>> THEN <<"No Vocals">>
  ELSE IF mapVocals(list, <<>>) = <<>> THEN <<"No Vocals">>
  ELSE mapVocals(list, <<>>)

\* the vocals of getDefaultCreative()
getDefaultCreativeVocals == <<>>

\* runCreativeAnalysis: data.vocals is normalized from the answer when the
\* answer was parsed, and the default otherwise
runCreative ==
  /\ creativeRun.pc = "idle"
  /\ \E i \in 1..Len(LlmConditions), answer \in ListsUpTo(RawVocals, MaxVocals) :
       LET r == runCreativeAnalysis(LlmConditions[i])
       IN  creativeRun' = [creativeRun EXCEPT
                             !.pc = "answered",
                             !.answer = answer,
                             !.error = r.error,
                             !.vocals = IF r.error THEN getDefaultCreativeVocals
                                        ELSE normalizeVocals(answer),
                             !.creative_status = creativeStatus(r)]
  /\ UNCHANGED <<envVars, queueVars, jsonVars, pipelineVars, storeVars, readyVars, cancelVars,
                 mergeVars, finalizeVars, tempoVars, ensembleVars>>

\* completeAnalysisInBackground: creative = creativeResult.data goes into the
\* analysis object as it is
buildCreativeOfRecord ==
  /\ creativeRun.pc = "answered"
  /\ creativeRun' = [creativeRun EXCEPT
                       !.pc = "recorded",
                       !.recordVocals = creativeRun.vocals]
  /\ UNCHANGED <<envVars, queueVars, jsonVars, pipelineVars, storeVars, readyVars, cancelVars,
                 mergeVars, finalizeVars, tempoVars, ensembleVars>>

InitCreativeRun ==
  /\ mode = "CONCURRENT"
  /\ dbFolder = TRUE
  /\ techConcurrency = 0
  /\ autoUpdateDb = FALSE
  /\ InitPipeline
  /\ InitStore
  /\ InitReadyDone
  /\ InitCancel
  /\ InitMerge
  /\ InitFinalize
  /\ InitTempo
  /\ InitEnsemble
  /\ InitCreative
  /\ InitJson
  /\ InitQueue

NextCreative == runCreative \/ buildCreativeOfRecord

SpecCreative == InitCreativeRun /\ [][NextCreative]_vars

\* C28: the creative.vocals of every record is non-empty, whether the
\* creative facts come from a parsed answer or from the defaults
C28_VocalsNeverEmpty ==
  creativeRun.pc = "recorded" => creativeRun.recordVocals # <<>>

----------------------------------------------------------------------------
\* db/mergeFromTrackJson.js: the instrument list the merge resolves from a
\* per-track JSON and forces into analysis.instruments and
\* analysis.final_instruments

\* thousandths: 0.006 and 0.005
DefaultMeanThresh == 6
posFallbackThresh == 5

\* the lists a source of the per-track JSON may hold
SourceLists == {<<>>, <<"Piano">>, <<"Brass (section)", "Trumpet">>}

\* creative.suggestedInstruments
SuggestLists == {<<>>, <<"Piano">>, <<"Brass Section">>}

\* String(s).lowerLabel() on the labels met here
lowerLabel(s) ==
  CASE s = "Piano" -> "piano"
    [] s = "Trumpet" -> "trumpet"
    [] s = "Brass" -> "brass"
    [] s = "Brass (section)" -> "brass (section)"
    [] s = "Brass Section" -> "brass section"
    [] s = "Woodwinds" -> "woodwinds"
    [] OTHER -> s

\* item.includes(k) for one of the brass keys, one of the woodwind keys
includesBrassKey(lowered) ==
  lowered \in {"trumpet", "brass", "brass (section)", "brass section"}

includesWoodKey(lowered) == lowered \in {"woodwinds"}

\* s.includes('brass')
includesBrass(lowered) == lowered \in {"brass", "brass (section)", "brass section"}

RECURSIVE uniqCIInto(_, _)
uniqCIInto(arr, out) ==
  IF arr = <<>> THEN out
  ELSE IF Head(arr) = ""
            \/ \E i \in 1..Len(out) : lowerLabel(out[i]) = lowerLabel(Head(arr))
       THEN uniqCIInto(Tail(arr), out)
       ELSE uniqCIInto(Tail(arr), Append(out, Head(arr)))

uniqCI(arr) == uniqCIInto(arr, <<>>)

canon(t) ==
  CASE t \in {"Brass (section)", "Brass Section"} -> "Brass"
    [] t \in {"Woodwinds (section)", "Woodwind"} -> "Woodwinds"
    [] OTHER -> t

\* instruments: the first non-empty source, canonicalized and deduplicated
resolvedInstruments(src) ==
  LET first == IF src.finalInstruments # <<>> THEN src.finalInstruments
               ELSE IF src.analysisFinalInstruments # <<>> THEN src.analysisFinalInstruments
               ELSE IF src.instruments # <<>> THEN src.instruments
               ELSE IF src.analysisInstruments # <<>> THEN src.analysisInstruments
               ELSE IF src.instrumentationInstruments # <<>> THEN src.instrumentationInstruments
               ELSE IF uniqCI(src.creativeInstrument) # <<>> THEN uniqCI(src.creativeInstrument)
               ELSE src.techMap
  IN  dedupe([i \in 1..Len(first) |-> canon(first[i])], <<>>)

basePrecedence(src) ==
  uniqCI(IF src.instrumentationInstruments # <<>> THEN src.instrumentationInstruments
         ELSE IF resolvedInstruments(src) # <<>> THEN resolvedInstruments(src)
         ELSE IF src.creativeInstrument # <<>> THEN uniqCI(src.creativeInstrument)
         ELSE src.techMap)

robustCreativeBrassFallback(src, instrumentFallback) ==
  LET creativeSuggest == uniqCI(src.suggestedInstruments)
      creativeSaysBrass == \E i \in 1..Len(creativeSuggest) :
                              includesBrass(lowerLabel(creativeSuggest[i]))
      meanPass == src.pannsMean >= DefaultMeanThresh
      posPass == src.pannsPos >= posFallbackThresh
      present == \E i \in 1..Len(instrumentFallback) :
                    lowerLabel(instrumentFallback[i]) \in {"brass", "brass (section)"}
  IN  IF (creativeSaysBrass \/ meanPass \/ posPass) /\ ~present
      THEN uniqCI(Append(instrumentFallback, "Brass"))
      ELSE instrumentFallback

addInstrumentFamilies(arr) ==
  IF arr = <<>> THEN arr
  ELSE LET lowered == [i \in 1..Len(arr) |-> lowerLabel(arr[i])]
           hasBrassKey == \E i \in 1..Len(arr) : includesBrassKey(lowered[i])
           hasWoodKey == \E i \in 1..Len(arr) : includesWoodKey(lowered[i])
           brassThere == \E i \in 1..Len(arr) : lowered[i] \in {"brass", "brass (section)"}
           woodThere == \E i \in 1..Len(arr) : lowered[i] \in {"woodwinds", "woodwinds (section)"}
           withBrass == IF hasBrassKey /\ ~brassThere THEN Append(arr, "Brass") ELSE arr
           withWood == IF hasWoodKey /\ ~woodThere THEN Append(withBrass, "Woodwinds")
                       ELSE withBrass
       IN  uniqCI(withWood)

\* the list forced into src.analysis.final_instruments and
\* src.analysis.instruments
instrumentFallbackOf(src) ==
  addInstrumentFamilies(robustCreativeBrassFallback(src, basePrecedence(src)))

\* a per-track JSON arrives
readTrackJson ==
  /\ trackJson.pc = "idle"
  /\ \E rootFinal \in {<<>>, <<"Piano">>}, analysisFinal \in SourceLists,
        analysisRaw \in SourceLists, instFromInstr \in SourceLists,
        creativeList \in SourceLists, hinted \in {<<>>, <<"Piano">>},
        suggest \in SuggestLists,
        mean \in {0, DefaultMeanThresh}, pos \in {0, posFallbackThresh} :
       trackJson' = [trackJson EXCEPT
                       !.pc = "read",
                       !.finalInstruments = rootFinal,
                       !.analysisFinalInstruments = analysisFinal,
                       !.analysisInstruments = analysisRaw,
                       !.instrumentationInstruments = instFromInstr,
                       !.creativeInstrument = creativeList,
                       !.techMap = hinted,
                       !.suggestedInstruments = suggest,
                       !.pannsMean = mean,
                       !.pannsPos = pos]
  /\ UNCHANGED <<envVars, queueVars, pipelineVars, storeVars, readyVars, cancelVars,
                 mergeVars, finalizeVars, tempoVars, ensembleVars, creativeVars>>

mergeFromTrackJson ==
  /\ trackJson.pc = "read"
  /\ trackJson' = [trackJson EXCEPT
                     !.pc = "merged",
                     !.final_instruments = instrumentFallbackOf(trackJson),
                     !.merged_instruments = instrumentFallbackOf(trackJson)]
  /\ UNCHANGED <<envVars, queueVars, pipelineVars, storeVars, readyVars, cancelVars,
                 mergeVars, finalizeVars, tempoVars, ensembleVars, creativeVars>>

InitJsonRun ==
  /\ mode = "CONCURRENT"
  /\ dbFolder = TRUE
  /\ techConcurrency = 0
  /\ autoUpdateDb = FALSE
  /\ InitPipeline
  /\ InitStore
  /\ InitReadyDone
  /\ InitCancel
  /\ InitMerge
  /\ InitFinalize
  /\ InitTempo
  /\ InitEnsemble
  /\ InitCreative
  /\ InitJson
  /\ InitQueue

NextJson == readTrackJson \/ mergeFromTrackJson

SpecJson == InitJsonRun /\ [][NextJson]_vars

\* C27: the Creative client's suggested instruments are never merged into the
\* authoritative lists: analysis.instruments and analysis.final_instruments
\* after the merge are what they would be with no Creative suggestions
C27_SuggestionsStaySeparate ==
  trackJson.pc = "merged" =>
    LET without == [trackJson EXCEPT !.suggestedInstruments = <<>>]
    IN  /\ trackJson.final_instruments = instrumentFallbackOf(without)
        /\ trackJson.merged_instruments = instrumentFallbackOf(without)

----------------------------------------------------------------------------
\* main.js: the renderer never sends renderer:ready; the once-listener never
\* runs and the setTimeout of createWindow is the only source of readiness.
\* Every handler and timer that is due is run by the event loop.

NextReadyNoSignal ==
  \/ processQueue
  \/ \E s \in Subs : analyzeFile(s)
  \/ readyWatchdog
  \/ \E s \in Subs : analyzeFileReplied(s)

FairReadyNoSignal ==
  /\ WF_vars(processQueue)
  /\ WF_vars(readyWatchdog)
  /\ \A s \in Subs : WF_vars(analyzeFile(s))
  /\ \A s \in Subs : WF_vars(analyzeFileReplied(s))

SpecReadyNoSignal == InitReady /\ [][NextReadyNoSignal]_vars /\ FairReadyNoSignal

\* C29: every analysis request held back before readiness is eventually
\* answered, even when the ready signal never arrives: the watchdog alone
\* gets the held-back requests processed and their promises resolved
C29_BufferedEventuallyAnswered ==
  \A s \in Subs : (phase[s] = "buffered") ~> (phase[s] = "replied")

----------------------------------------------------------------------------
\* analysis/ffcalc.js: the background queue under more tasks than slots.
\* A task is the closure analyzeMp3 enqueues; once started it runs
\* completeAnalysisInBackground and settles, fulfilled or rejected.

NumTasks == 5
Tasks == 1..NumTasks

\* analyzeMp3 for task t: enqueueBackgroundTask(() => completeAnalysisInBackground(...))
analyzeMp3Enqueues(t) ==
  /\ bg[t] = "none"
  /\ enqueueBackgroundTask(t)
  /\ everQueued' =
       IF processNextBackgroundTask(Append(backgroundQueue, t), activeBackgroundTasks).start = t
       THEN everQueued ELSE everQueued \cup {t}
  /\ UNCHANGED <<envVars, storeVars, readyVars, cancelVars, mergeVars,
                 finalizeVars, tempoVars, ensembleVars, creativeVars, jsonVars,
                 started, trackIndex, activeWorkers, tech, instrSt, creativeRes,
                 instrRes, obs, jsonWrites, storeWrites, jsonFile>>

\* mutant: a rejected task keeps its slot and starts nothing
taskSettled_rejectedKeepsSlot(t) ==
  /\ bg[t] = "creative"
  /\ \E how \in {"done", "failed"} :
       IF how = "failed"
       THEN /\ bg' = [bg EXCEPT ![t] = how]
            /\ UNCHANGED <<backgroundQueue, activeBackgroundTasks, creativeSt>>
       ELSE SettleTask(t, how)
  /\ UNCHANGED <<envVars, storeVars, readyVars, cancelVars, mergeVars,
                 finalizeVars, tempoVars, ensembleVars, creativeVars, jsonVars,
                 queueVars,
                 started, trackIndex, activeWorkers, tech, instrSt, creativeRes,
                 instrRes, obs, jsonWrites, storeWrites, jsonFile>>

\* the promise of task() settles: .catch logs a rejection, .finally releases
\* the slot and calls processNextBackgroundTask
taskSettled(t) ==
  /\ bg[t] = "creative"
  /\ \E how \in {"done", "failed"} : SettleTask(t, how)
  /\ UNCHANGED <<envVars, storeVars, readyVars, cancelVars, mergeVars,
                 finalizeVars, tempoVars, ensembleVars, creativeVars, jsonVars,
                 queueVars,
                 started, trackIndex, activeWorkers, tech, instrSt, creativeRes,
                 instrRes, obs, jsonWrites, storeWrites, jsonFile>>

InitQueueRun ==
  /\ mode = "CONCURRENT"
  /\ dbFolder = TRUE
  /\ techConcurrency = 0
  /\ autoUpdateDb = FALSE
  /\ started = TRUE
  /\ trackIndex = 0
  /\ activeWorkers = 0
  /\ tech = [s \in Subs |-> "queued"]
  /\ bg = [t \in Tasks |-> "none"]
  /\ creativeSt = [t \in Tasks |-> "idle"]
  /\ instrSt = [s \in Subs |-> "idle"]
  /\ creativeRes = [s \in Subs |-> "none"]
  /\ instrRes = [s \in Subs |-> "none"]
  /\ backgroundQueue = <<>>
  /\ activeBackgroundTasks = 0
  /\ obs = [s \in Subs |-> <<>>]
  /\ jsonWrites = [s \in Subs |-> 0]
  /\ storeWrites = [s \in Subs |-> 0]
  /\ jsonFile = [p \in JsonPaths |-> "absent"]
  /\ InitStore
  /\ InitReadyDone
  /\ InitCancel
  /\ InitMerge
  /\ InitFinalize
  /\ InitTempo
  /\ InitEnsemble
  /\ InitCreative
  /\ InitJson
  /\ InitQueue

NextQueue ==
  \/ \E t \in Tasks : analyzeMp3Enqueues(t)
  \/ \E t \in Tasks : taskSettled(t)

\* every started task eventually settles
FairQueue == \A t \in Tasks : WF_vars(taskSettled(t))

SpecQueue == InitQueueRun /\ [][NextQueue]_vars /\ FairQueue

\* C30: every task placed on the background queue is eventually started,
\* provided each started task eventually settles; a rejected task releases
\* its slot like a fulfilled one, so the tasks behind it are not stranded
C30_QueuedEventuallyStarted ==
  \A t \in Tasks : (bg[t] = "queued") ~> (bg[t] # "queued")

\* a task that had to wait behind a full set of slots has been started after
\* a task ahead of it was rejected
C30_Witness ==
  \E t \in everQueued :
    /\ bg[t] \in {"creative", "done", "failed"}
    /\ \E u \in Tasks \ {t} : bg[u] = "failed"

====
